---- MODULE Spec2Model ----
(***************************************************************************)
(* FinBench: the benchmark engine (benchmark/engine.go), the backend       *)
(* client and reply parser (benchmark/llm.go), the scorer, the indicator   *)
(* calculator and snapshot acquisition, as a state machine.                *)
(*                                                                         *)
(* float64 values are modelled as exact rationals <<n, d>> (d > 0, lowest  *)
(* terms); a string built by fmt.Errorf is modelled by its constant prefix.*)
(***************************************************************************)
EXTENDS Integers, Sequences, FiniteSets, Bags, TLC

(***************************************************************************)
(* Bounds of the model.                                                    *)
(***************************************************************************)
MaxModels == 2
MaxRuns == 2
MaxSymbols == 2
MaxTasks == 4
MaxCaptureTasks == 2
MaxLen == 4
MaxCalls == 3

(***************************************************************************)
(* float64 arithmetic, as exact rationals.                                 *)
(***************************************************************************)
Abs(i) == IF i < 0 THEN -i ELSE i

RECURSIVE GCD(_, _)
GCD(a, b) == IF b = 0 THEN a ELSE GCD(b, a % b)

Rat(n, d) ==
    IF n = 0 THEN <<0, 1>>
    ELSE LET g == GCD(Abs(n), Abs(d))
             s == IF d < 0 THEN -1 ELSE 1
         IN <<(s * n) \div g, (s * d) \div g>>

Num(i) == <<i, 1>>
Zero == <<0, 1>>
RAdd(x, y) == Rat(x[1] * y[2] + y[1] * x[2], x[2] * y[2])
RSub(x, y) == Rat(x[1] * y[2] - y[1] * x[2], x[2] * y[2])
RMul(x, y) == Rat(x[1] * y[1], x[2] * y[2])
RDiv(x, y) == Rat(x[1] * y[2], x[2] * y[1])
RAbs(x) == <<Abs(x[1]), x[2]>>
RNeg(x) == <<-x[1], x[2]>>
RLe(x, y) == x[1] * y[2] <= y[1] * x[2]
RLt(x, y) == x[1] * y[2] < y[1] * x[2]
RMax(x, y) == IF RLt(x, y) THEN y ELSE x

\* math.Sqrt: exact on squares of rationals, otherwise truncated to 1/1000
\* (to 1/100 or to a whole number where the numerator is large).
RECURSIVE ISqrt(_)
ISqrt(n) ==
    IF n < 2 THEN n
    ELSE LET r == 2 * ISqrt(n \div 4)
         IN IF (r + 1) * (r + 1) > n THEN r ELSE r + 1
Sqrt(x) ==
    LET a == ISqrt(x[1])
        b == ISqrt(x[2])
    IN IF a * a = x[1] /\ b * b = x[2] THEN Rat(a, b)
       ELSE IF x[1] < 2000 THEN Rat(ISqrt((x[1] * 1000000) \div x[2]), 1000)
       ELSE IF x[1] < 200000 THEN Rat(ISqrt((x[1] * 10000) \div x[2]), 100)
       ELSE Rat(ISqrt(x[1] \div x[2]), 1)

(***************************************************************************)
(* market: the indicator calculator.  A series is a sequence of Kline     *)
(* records; Go's index i is the model's index i + 1.                       *)
(***************************************************************************)
Kline(o, h, l, c, v) ==
    [Open |-> Num(o), High |-> Num(h), Low |-> Num(l), Close |-> Num(c), Volume |-> Num(v)]

\* a value with denominator 0 stands for an infinity or a NaN, which every
\* later iteration of a loop leaves as it is
Finite(x) == x[2] # 0

\* sum += klines[i].Close over Go indices from .. to-1; the sum so far is
\* computed before the next term is added
RECURSIVE SumClose(_, _, _)
SumClose(klines, from, to) ==
    IF from >= to THEN Zero
    ELSE LET sum == SumClose(klines, from, to - 1)
         IN IF Finite(sum) THEN RAdd(sum, klines[to].Close) ELSE sum

RECURSIVE SumVolume(_, _, _)
SumVolume(klines, from, to) ==
    IF from >= to THEN Zero
    ELSE LET sum == SumVolume(klines, from, to - 1)
         IN IF Finite(sum) THEN RAdd(sum, klines[to].Volume) ELSE sum

\* the loop of CalculateEMA over Go indices i .. len-1; each iteration's value
\* is computed before the next iteration starts
RECURSIVE EMAFold(_, _, _, _)
EMAFold(klines, i, ema, multiplier) ==
    IF i >= Len(klines) THEN ema
    ELSE LET next == RAdd(RMul(RSub(klines[i + 1].Close, ema), multiplier), ema)
         IN IF Finite(next) THEN EMAFold(klines, i + 1, next, multiplier) ELSE next

\* an EMA seeded with the mean of the last period closes
CalculateEMASeedsTrailing(klines, period) ==
    IF Len(klines) < period THEN Zero
    ELSE EMAFold(klines, period,
                 RDiv(SumClose(klines, Len(klines) - period, Len(klines)), Num(period)),
                 Rat(2, period + 1))

CalculateEMA(klines, period) ==
    IF Len(klines) < period THEN Zero
    ELSE EMAFold(klines, period,
                 RDiv(SumClose(klines, 0, period), Num(period)),
                 Rat(2, period + 1))

CalculateSMA(klines, period) ==
    IF Len(klines) < period THEN Zero
    ELSE RDiv(SumClose(klines, Len(klines) - period, Len(klines)), Num(period))

\* a MACD without its own length guard
CalculateMACDUnguarded(klines) ==
    RSub(CalculateEMA(klines, 12), CalculateEMA(klines, 26))

CalculateMACD(klines) ==
    IF Len(klines) < 26 THEN Zero
    ELSE RSub(CalculateEMA(klines, 12), CalculateEMA(klines, 26))

Change(klines, i) == RSub(klines[i + 1].Close, klines[i].Close)

\* the seed loop of CalculateRSI over Go indices 1 .. i: <<gains, losses>>
RECURSIVE RSISeed(_, _)
RSISeed(klines, i) ==
    IF i < 1 THEN <<Zero, Zero>>
    ELSE LET p == RSISeed(klines, i - 1)
             change == Change(klines, i)
         IN IF ~(Finite(p[1]) /\ Finite(p[2])) THEN p
            ELSE IF RLt(Zero, change) THEN <<RAdd(p[1], change), p[2]>>
            ELSE <<p[1], RAdd(p[2], RNeg(change))>>

\* the Wilder loop of CalculateRSI over Go indices i .. len-1: <<avgGain, avgLoss>>
RECURSIVE RSIWilder(_, _, _, _)
RSIWilder(klines, period, i, avg) ==
    IF i >= Len(klines) THEN avg
    ELSE LET change == Change(klines, i)
             keepG == RMul(avg[1], Num(period - 1))
             keepL == RMul(avg[2], Num(period - 1))
             next == IF RLt(Zero, change)
                     THEN <<RDiv(RAdd(keepG, change), Num(period)),
                            RDiv(keepL, Num(period))>>
                     ELSE <<RDiv(keepG, Num(period)),
                            RDiv(RAdd(keepL, RNeg(change)), Num(period))>>
         IN IF Finite(next[1]) /\ Finite(next[2])
            THEN RSIWilder(klines, period, i + 1, next)
            ELSE next

\* an RSI that reports 0 when there were no losses
CalculateRSIZeroWithoutLosses(klines, period) ==
    IF Len(klines) <= period THEN Zero
    ELSE LET seed == RSISeed(klines, period)
             avg == RSIWilder(klines, period, period + 1,
                              <<RDiv(seed[1], Num(period)), RDiv(seed[2], Num(period))>>)
         IN IF avg[2] = Zero THEN Zero
            ELSE RSub(Num(100), RDiv(Num(100), RAdd(Num(1), RDiv(avg[1], avg[2]))))

CalculateRSI(klines, period) ==
    IF Len(klines) <= period THEN Zero
    ELSE LET seed == RSISeed(klines, period)
             avg == RSIWilder(klines, period, period + 1,
                              <<RDiv(seed[1], Num(period)), RDiv(seed[2], Num(period))>>)
         IN IF avg[2] = Zero THEN Num(100)
            ELSE RSub(Num(100), RDiv(Num(100), RAdd(Num(1), RDiv(avg[1], avg[2]))))

\* trs[i] of CalculateATR, Go index i >= 1
TrueRange(klines, i) ==
    LET high == klines[i + 1].High
        low == klines[i + 1].Low
        prevClose == klines[i].Close
    IN RMax(RSub(high, low), RMax(RAbs(RSub(high, prevClose)), RAbs(RSub(low, prevClose))))

RECURSIVE SumTR(_, _)
SumTR(klines, i) ==
    IF i < 1 THEN Zero
    ELSE LET sum == SumTR(klines, i - 1)
         IN IF Finite(sum) THEN RAdd(sum, TrueRange(klines, i)) ELSE sum

RECURSIVE ATRWilder(_, _, _, _)
ATRWilder(klines, period, i, atr) ==
    IF i >= Len(klines) THEN atr
    ELSE LET next == RDiv(RAdd(RMul(atr, Num(period - 1)), TrueRange(klines, i)),
                          Num(period))
         IN IF Finite(next) THEN ATRWilder(klines, period, i + 1, next) ELSE next

CalculateATR(klines, period) ==
    IF Len(klines) <= period THEN Zero
    ELSE ATRWilder(klines, period, period + 1, RDiv(SumTR(klines, period), Num(period)))

RECURSIVE SumSqDiff(_, _, _, _)
SumSqDiff(klines, from, to, sma) ==
    IF from >= to THEN Zero
    ELSE LET diff == RSub(klines[to].Close, sma)
             variance == SumSqDiff(klines, from, to - 1, sma)
         IN IF Finite(variance) THEN RAdd(variance, RMul(diff, diff)) ELSE variance

\* <<upper, middle, lower>>
CalculateBOLL(klines, period, multiplier) ==
    IF Len(klines) < period THEN <<Zero, Zero, Zero>>
    ELSE LET n == Len(klines)
             sma == RDiv(SumClose(klines, n - period, n), Num(period))
             stdDev == Sqrt(RDiv(SumSqDiff(klines, n - period, n, sma), Num(period)))
         IN <<RAdd(sma, RMul(multiplier, stdDev)), sma, RSub(sma, RMul(multiplier, stdDev))>>

CalculateVolumeMA(klines, period) ==
    IF Len(klines) < period THEN Zero
    ELSE RDiv(SumVolume(klines, Len(klines) - period, Len(klines)), Num(period))

(***************************************************************************)
(* benchmark: IndicatorResult and the expected values.                     *)
(***************************************************************************)
Fields == {"MA20", "EMA12", "EMA26", "MACD", "RSI14",
           "BOLLUp", "BOLLMid", "BOLLLow", "ATR14", "VolumeMA"}

\* the zero value of IndicatorResult
ZeroResult == [f \in Fields |-> Zero]

CalculateIndicators(klines) ==
    LET n == Len(klines)
        boll == CalculateBOLL(klines, 20, Num(2))
    IN [MA20 |-> IF n >= 20 THEN CalculateSMA(klines, 20) ELSE Zero,
        EMA12 |-> IF n >= 12 THEN CalculateEMA(klines, 12) ELSE Zero,
        EMA26 |-> IF n >= 26 THEN CalculateEMA(klines, 26) ELSE Zero,
        MACD |-> IF n >= 26 THEN CalculateMACD(klines) ELSE Zero,
        RSI14 |-> IF n > 14 THEN CalculateRSI(klines, 14) ELSE Zero,
        ATR14 |-> IF n > 14 THEN CalculateATR(klines, 14) ELSE Zero,
        BOLLUp |-> IF n >= 20 THEN boll[1] ELSE Zero,
        BOLLMid |-> IF n >= 20 THEN boll[2] ELSE Zero,
        BOLLLow |-> IF n >= 20 THEN boll[3] ELSE Zero,
        VolumeMA |-> IF n >= 5 THEN CalculateVolumeMA(klines, 5) ELSE Zero]

(***************************************************************************)
(* benchmark: the scorer.                                                  *)
(***************************************************************************)
\* tiers closed on the side of the larger error
ScoreFromErrorStrict(errorPct) ==
    LET e == RAbs(errorPct)
    IN IF RLt(e, Rat(1, 10)) THEN 100
       ELSE IF RLt(e, Num(1)) THEN 80
       ELSE IF RLt(e, Num(5)) THEN 60
       ELSE IF RLt(e, Num(10)) THEN 40
       ELSE 0

ScoreFromError(errorPct) ==
    LET e == RAbs(errorPct)
    IN IF RLe(e, Rat(1, 10)) THEN 100
       ELSE IF RLe(e, Num(1)) THEN 80
       ELSE IF RLe(e, Num(5)) THEN 60
       ELSE IF RLe(e, Num(10)) THEN 40
       ELSE 0

\* the percentage error without the branch for expected = 0
CalculateErrorUnguarded(expected, actual) ==
    RMul(RDiv(RAbs(RSub(expected, actual)), RAbs(expected)), Num(100))

CalculateError(expected, actual) ==
    IF expected = Zero
    THEN IF actual = Zero THEN Zero ELSE Num(100)
    ELSE RMul(RDiv(RAbs(RSub(expected, actual)), RAbs(expected)), Num(100))

\* the json tag of each field of IndicatorResult / IndicatorScores
JsonKey(f) ==
    CASE f = "MA20" -> "ma20"
      [] f = "EMA12" -> "ema12"
      [] f = "EMA26" -> "ema26"
      [] f = "MACD" -> "macd"
      [] f = "RSI14" -> "rsi14"
      [] f = "BOLLUp" -> "boll_upper"
      [] f = "BOLLMid" -> "boll_middle"
      [] f = "BOLLLow" -> "boll_lower"
      [] f = "ATR14" -> "atr14"
      [] f = "VolumeMA" -> "volume_ma5"

JsonKeys == {JsonKey(f) : f \in Fields}
FieldOfKey(k) == CHOOSE f \in Fields : JsonKey(f) = k

\* [scores, errors]: errors is keyed by json name, scores by struct field
ScoreIndicators(expected, actual) ==
    LET errors == [k \in JsonKeys |->
                     CalculateError(expected[FieldOfKey(k)], actual[FieldOfKey(k)])]
    IN [scores |-> [f \in Fields |-> ScoreFromError(errors[JsonKey(f)])],
        errors |-> errors]

\* a mean that leaves the last indicator out
CalculateTotalScoreOfNine(scores) ==
    Rat(scores.MA20 + scores.EMA12 + scores.EMA26 + scores.MACD + scores.RSI14
        + scores.BOLLUp + scores.BOLLMid + scores.BOLLLow + scores.ATR14, 9)

CalculateTotalScore(scores) ==
    Rat(scores.MA20 + scores.EMA12 + scores.EMA26 + scores.MACD + scores.RSI14
        + scores.BOLLUp + scores.BOLLMid + scores.BOLLLow + scores.ATR14
        + scores.VolumeMA, 10)

(***************************************************************************)
(* Text.  A backend reply is a sequence of tokens: an opening or closing   *)
(* brace, a run of prose, a member "key": number, a member "key": "string" *)
(* and a member key "key": whose value is the object that follows it.      *)
(***************************************************************************)
LB == [t |-> "{", k |-> "", v |-> Zero]
RB == [t |-> "}", k |-> "", v |-> Zero]
TXT == [t |-> "txt", k |-> "", v |-> Zero]
KV(key, val) == [t |-> "num", k |-> key, v |-> val]
KS(key) == [t |-> "str", k |-> key, v |-> Zero]
KO(key) == [t |-> "key", k |-> key, v |-> Zero]

\* the closing brace of the object whose members start at i, 0 when the text
\* is not a JSON object there
RECURSIVE MembersEnd(_, _)
MembersEnd(toks, i) ==
    IF i > Len(toks) THEN 0
    ELSE IF toks[i].t = "}" THEN i
    ELSE IF toks[i].t \in {"num", "str"} THEN MembersEnd(toks, i + 1)
    ELSE IF toks[i].t = "key" /\ i + 1 <= Len(toks) /\ toks[i + 1].t = "{"
    THEN LET e == MembersEnd(toks, i + 2)
         IN IF e = 0 THEN 0 ELSE MembersEnd(toks, e + 1)
    ELSE 0

ValidJSON(toks) ==
    /\ Len(toks) >= 2
    /\ toks[1].t = "{"
    /\ MembersEnd(toks, 2) = Len(toks)

\* decoding the members of a valid object from i on into the struct:
\* [val, typeErr]; unknown keys are skipped, a known key with a value that is
\* not a number is a type error and decoding goes on
RECURSIVE DecodeMembers(_, _, _)
DecodeMembers(toks, i, acc) ==
    IF toks[i].t = "}" THEN acc
    ELSE IF toks[i].t = "num"
    THEN DecodeMembers(toks, i + 1,
           IF toks[i].k \in JsonKeys
           THEN [acc EXCEPT !.val = [@ EXCEPT ![FieldOfKey(toks[i].k)] = toks[i].v]]
           ELSE acc)
    ELSE IF toks[i].t = "str"
    THEN DecodeMembers(toks, i + 1,
           IF toks[i].k \in JsonKeys THEN [acc EXCEPT !.typeErr = TRUE] ELSE acc)
    ELSE DecodeMembers(toks, MembersEnd(toks, i + 2) + 1,
           IF toks[i].k \in JsonKeys THEN [acc EXCEPT !.typeErr = TRUE] ELSE acc)

\* json.Unmarshal([]byte(text), &result): [val, err]; a syntax error leaves
\* the struct as it was
Unmarshal(toks, into) ==
    IF ~ValidJSON(toks) THEN [val |-> into, err |-> TRUE]
    ELSE LET d == DecodeMembers(toks, 2, [val |-> into, typeErr |-> FALSE])
         IN [val |-> d.val, err |-> d.typeErr]

IsBrace(tok) == tok.t \in {"{", "}"}

\* regexp \{[^{}]*"ma20"[^{}]*\} at i: the index of the closing brace, or 0
RegexEndAt(toks, i) ==
    IF toks[i].t # "{" THEN 0
    ELSE LET ends == {j \in (i + 1)..Len(toks) :
                        /\ toks[j].t = "}"
                        /\ \A m \in (i + 1)..(j - 1) : ~IsBrace(toks[m])
                        /\ \E m \in (i + 1)..(j - 1) : toks[m].k = "ma20"}
         IN IF ends = {} THEN 0 ELSE CHOOSE j \in ends : TRUE

\* re.FindString: the leftmost match, "" when there is none
FindString(toks) ==
    LET starts == {i \in 1..Len(toks) : RegexEndAt(toks, i) # 0}
    IN IF starts = {} THEN <<>>
       ELSE LET i == CHOOSE s \in starts : \A o \in starts : s <= o
            IN SubSeq(toks, i, RegexEndAt(toks, i))

\* strings.Index / strings.LastIndex of a brace, 0 for -1
Index(toks, t) ==
    LET at == {i \in 1..Len(toks) : toks[i].t = t}
    IN IF at = {} THEN 0 ELSE CHOOSE i \in at : \A o \in at : i <= o
LastIndex(toks, t) ==
    LET at == {i \in 1..Len(toks) : toks[i].t = t}
    IN IF at = {} THEN 0 ELSE CHOOSE i \in at : \A o \in at : i >= o

\* a parser whose struct starts with every field at 1
ParseIndicatorResponseDefaultsOne(response) ==
    LET ones == [f \in Fields |-> Num(1)]
        direct == Unmarshal(response, ones)
        re == FindString(response)
        start == Index(response, "{")
        end == LastIndex(response, "}")
        match == IF re # <<>> THEN re
                 ELSE IF start # 0 /\ end # 0 /\ end > start
                 THEN SubSeq(response, start, end)
                 ELSE <<>>
        second == Unmarshal(match, direct.val)
    IN IF ~direct.err THEN [ok |-> TRUE, val |-> direct.val, err |-> ""]
       ELSE IF match = <<>>
       THEN [ok |-> FALSE, val |-> ZeroResult, err |-> "no JSON found in response"]
       ELSE IF second.err
       THEN [ok |-> FALSE, val |-> ZeroResult, err |-> "parse JSON failed"]
       ELSE [ok |-> TRUE, val |-> second.val, err |-> ""]

\* a parser that extracts a substring before it tries the whole reply
ParseIndicatorResponseExtractsFirst(response) ==
    LET re == FindString(response)
        start == Index(response, "{")
        end == LastIndex(response, "}")
        match == IF re # <<>> THEN re
                 ELSE IF start # 0 /\ end # 0 /\ end > start
                 THEN SubSeq(response, start, end)
                 ELSE <<>>
        first == Unmarshal(match, ZeroResult)
        direct == Unmarshal(response, first.val)
    IN IF match # <<>> /\ ~first.err THEN [ok |-> TRUE, val |-> first.val, err |-> ""]
       ELSE IF ~direct.err THEN [ok |-> TRUE, val |-> direct.val, err |-> ""]
       ELSE IF match = <<>>
       THEN [ok |-> FALSE, val |-> ZeroResult, err |-> "no JSON found in response"]
       ELSE [ok |-> FALSE, val |-> ZeroResult, err |-> "parse JSON failed"]

\* [ok, val, err]
ParseIndicatorResponse(response) ==
    LET direct == Unmarshal(response, ZeroResult)
        re == FindString(response)
        start == Index(response, "{")
        end == LastIndex(response, "}")
        match == IF re # <<>> THEN re
                 ELSE IF start # 0 /\ end # 0 /\ end > start
                 THEN SubSeq(response, start, end)
                 ELSE <<>>
        second == Unmarshal(match, direct.val)
    IN IF ~direct.err THEN [ok |-> TRUE, val |-> direct.val, err |-> ""]
       ELSE IF match = <<>>
       THEN [ok |-> FALSE, val |-> ZeroResult, err |-> "no JSON found in response"]
       ELSE IF second.err
       THEN [ok |-> FALSE, val |-> ZeroResult, err |-> "parse JSON failed"]
       ELSE [ok |-> TRUE, val |-> second.val, err |-> ""]

(***************************************************************************)
(* benchmark: the backend client.  One HTTP exchange, as the environment   *)
(* decides it: whether client.Do returned a response (cause says why not), *)
(* its status, whether the body could be read, whether the body decodes as *)
(* a ChatResponse, whether that carries an error object, the contents of   *)
(* its choices, and the time the exchange took (ms).                       *)
(***************************************************************************)
Exchange(do, cause, status, read, json, apiError, choices, ms) ==
    [do |-> do, cause |-> cause, status |-> status, read |-> read, json |-> json,
     apiError |-> apiError, choices |-> choices, ms |-> ms]

\* LLMClient.Chat after the request is built: [response, err]
Chat(x) ==
    IF ~x.do THEN [response |-> <<>>, err |-> "request failed: " \o x.cause]
    ELSE IF ~x.read THEN [response |-> <<>>, err |-> "read response"]
    ELSE IF ~x.json THEN [response |-> <<>>, err |-> "unmarshal response"]
    ELSE IF x.apiError THEN [response |-> <<>>, err |-> "API error"]
    ELSE IF Len(x.choices) = 0 THEN [response |-> <<>>, err |-> "no response choices"]
    ELSE [response |-> x.choices[1], err |-> ""]

(***************************************************************************)
(* benchmark: configuration, snapshots and results.                        *)
(***************************************************************************)
Providers == <<"openai", "qwen", "deepseek">>

\* the i-th configured backend; the third shares its display name with the first
ModelAt(i) ==
    [Name |-> IF i % 2 = 1 THEN "A" ELSE "B",
     Provider |-> Providers[((i - 1) % Len(Providers)) + 1],
     Model |-> ToString(i),
     APIKey |-> ToString(i),
     BaseURL |-> ""]

SymbolPool == <<"BTC", "ETH", "SOL">>

\* the candles the market holds for a symbol
RisingSeries == [i \in 1..6 |-> Kline(9 + i, 11 + i, 8 + i, 10 + i, 100 + i)]
FlatSeries == [i \in 1..6 |-> Kline(50, 52, 49, 50, 7)]
MarketKlines(symbol) == IF symbol = "BTC" THEN RisingSeries ELSE FlatSeries

Snapshot(ts, symbol, klines) ==
    [ID |-> <<ts, symbol>>, Symbol |-> symbol, Timestamp |-> ts, Klines |-> klines]

\* the entries a dataset directory may hold
DirEntries ==
    {[name |-> "x.json", isDir |-> FALSE, valid |-> TRUE,
      snap |-> <<Snapshot(2, "BTC", RisingSeries)>>],
     [name |-> "y.json", isDir |-> FALSE, valid |-> TRUE,
      snap |-> <<Snapshot(1, "ETH", SubSeq(FlatSeries, 1, 5))>>],
     [name |-> "bad.json", isDir |-> FALSE, valid |-> FALSE, snap |-> <<>>],
     [name |-> "sub.json", isDir |-> TRUE, valid |-> FALSE, snap |-> <<>>],
     [name |-> "index.txt", isDir |-> FALSE, valid |-> TRUE, snap |-> <<>>]}

HasJsonSuffix(name) == name \in {"x.json", "y.json", "bad.json", "sub.json"}

\* the orders sort.Slice may leave: newest first
SortedNewestFirst(snaps) ==
    {s \in [1..Cardinality(snaps) -> snaps] :
        /\ \A i, j \in DOMAIN s : i # j => s[i] # s[j]
        /\ \A i, j \in DOMAIN s : i < j => s[i].Timestamp >= s[j].Timestamp}

\* LoadSnapshots of a readable directory: the lists it may return
LoadSnapshots(dir) ==
    SortedNewestFirst({e.snap[1] : e \in {d \in dir :
                          ~d.isDir /\ HasJsonSuffix(d.name) /\ d.valid /\ d.snap # <<>>}})

\* CaptureSnapshot: <<>> for an error, else the snapshot, taken at time now
CaptureSnapshot(symbol, klineCount, got, now) ==
    IF ~got.ok THEN <<>>
    ELSE IF Len(got.klines) < klineCount THEN <<>>
    ELSE <<Snapshot(now, symbol, got.klines)>>

\* fmt "%.2f" of a value of the prompt
Round2(x) == Rat((2 * x[1] * 100 + x[2]) \div (2 * x[2]), 100)

BuildIndicatorPrompt(klines) ==
    [i \in 1..Len(klines) |->
        [Open |-> Round2(klines[i].Open), High |-> Round2(klines[i].High),
         Low |-> Round2(klines[i].Low), Close |-> Round2(klines[i].Close),
         Volume |-> Round2(klines[i].Volume)]]

\* runSingleBenchmark up to the backend call; a nil pointer or map is <<>>
NewResult(snapshotID, modelCfg, expected, runIndex) ==
    [SnapshotID |-> snapshotID,
     Model |-> modelCfg.Name,
     ModelInfo |-> [Provider |-> modelCfg.Provider, Model |-> modelCfg.Model,
                    DisplayName |-> modelCfg.Name, BaseURL |-> modelCfg.BaseURL],
     RunIndex |-> runIndex,
     Expected |-> <<expected>>,
     Actual |-> <<>>,
     Errors |-> <<>>,
     Scores |-> <<>>,
     TotalScore |-> Zero,
     Latency |-> 0,
     RawOutput |-> <<>>,
     Error |-> ""]

\* runSingleBenchmark from the return of client.Chat to the error check
AfterChat(result, chat, ms) ==
    [result EXCEPT !.Latency = ms,
                   !.RawOutput = chat.response,
                   !.Error = chat.err]

\* a scorer that stores the decoded struct before looking at the parse error
ParseAndScoreKeepsActual(result) ==
    LET parsed == ParseIndicatorResponse(result.RawOutput)
        scored == ScoreIndicators(result.Expected[1], parsed.val)
    IN IF ~parsed.ok
       THEN [result EXCEPT !.Actual = <<parsed.val>>,
                           !.Error = "parse response: " \o parsed.err]
       ELSE [result EXCEPT !.Actual = <<parsed.val>>,
                           !.Scores = <<scored.scores>>,
                           !.Errors = scored.errors,
                           !.TotalScore = CalculateTotalScore(scored.scores)]

\* runSingleBenchmark from ParseIndicatorResponse on
ParseAndScore(result) ==
    LET parsed == ParseIndicatorResponse(result.RawOutput)
        scored == ScoreIndicators(result.Expected[1], parsed.val)
    IN IF ~parsed.ok
       THEN [result EXCEPT !.Error = "parse response: " \o parsed.err]
       ELSE [result EXCEPT !.Actual = <<parsed.val>>,
                           !.Scores = <<scored.scores>>,
                           !.Errors = scored.errors,
                           !.TotalScore = CalculateTotalScore(scored.scores)]

\* runSingleBenchmark as a whole, for one exchange
runSingleBenchmark(snapshotID, modelCfg, expected, runIndex, x) ==
    LET r == AfterChat(NewResult(snapshotID, modelCfg, expected, runIndex), Chat(x), x.ms)
    IN IF r.Error # "" THEN r ELSE ParseAndScore(r)

(***************************************************************************)
(* What a backend may answer to a prompt.                                  *)
(***************************************************************************)
KeyOrder == <<"ma20", "ema12", "ema26", "macd", "rsi14",
              "boll_upper", "boll_middle", "boll_lower", "atr14", "volume_ma5">>

JSONOf(vec) ==
    <<LB>> \o [i \in 1..Len(KeyOrder) |-> KV(KeyOrder[i], vec[FieldOfKey(KeyOrder[i])])]
           \o <<RB>>

\* the exact answer, as the object alone
ExactText(prompt) == JSONOf(CalculateIndicators(prompt))

\* an answer wrapped in prose that is 2% off on two indicators and omits the rest
WrappedText(prompt) ==
    LET e == CalculateIndicators(prompt)
    IN <<TXT, LB, KV("ma20", e.MA20), KV("ema12", RMul(e.EMA12, Rat(51, 50))),
         KV("volume_ma5", RMul(e.VolumeMA, Rat(51, 50))), RB, TXT>>

ProseText == <<TXT>>

\* an answer that is wrong on every indicator
WrongText(prompt) ==
    JSONOf([f \in Fields |-> RAdd(RMul(CalculateIndicators(prompt)[f], Num(2)), Num(1))])

\* the exact answer without the member key, and with 0 reported for it
RECURSIVE SeqFilterKey(_, _)
SeqFilterKey(toks, key) ==
    IF toks = <<>> THEN <<>>
    ELSE IF Head(toks).k = key THEN SeqFilterKey(Tail(toks), key)
    ELSE <<Head(toks)>> \o SeqFilterKey(Tail(toks), key)
OmitText(prompt, key) == SeqFilterKey(ExactText(prompt), key)
ZeroText(prompt, key) ==
    [i \in 1..Len(ExactText(prompt)) |->
        IF ExactText(prompt)[i].k = key THEN KV(key, Zero) ELSE ExactText(prompt)[i]]

\* an object without "ma20" between two runs of prose
FallbackText(prompt) ==
    LET e == CalculateIndicators(prompt)
    IN <<TXT, LB, KV("volume_ma5", e.VolumeMA), KV("confidence", Num(1)), RB, TXT>>

\* two objects in prose, the second one with "ma20"
TwoObjectsText(prompt) ==
    LET e == CalculateIndicators(prompt)
    IN <<TXT, LB, KV("volume_ma5", e.VolumeMA), RB, TXT,
         LB, KV("ma20", e.MA20), KV("ema12", Num(7)), RB>>

\* a valid object that holds the indicators partly in a nested object
OuterText == <<LB, KV("ema12", Num(7)), KO("data"), LB, KV("ma20", Num(5)), RB, RB>>

\* the same with an indicator given as a string
NestedText ==
    <<LB, KV("ema12", Num(7)), KS("rsi14"), KO("data"), LB, KV("ma20", Num(5)), RB, RB>>

\* a valid object with an indicator given as a string
StringText == <<LB, KV("ma20", Num(5)), KS("ema12"), RB>>

\* braces around something that is not a list of members, and braces the
\* wrong way round
BrokenText == <<TXT, LB, TXT, RB>>
ReversedText == <<RB, TXT, LB>>

\* the texts a backend may put in a choice
ReplyTexts(prompt) ==
    {ExactText(prompt), WrappedText(prompt), ProseText, FallbackText(prompt),
     TwoObjectsText(prompt), OuterText, NestedText, StringText, BrokenText, ReversedText}
    \cup {OmitText(prompt, k) : k \in JsonKeys}
    \cup {ZeroText(prompt, k) : k \in JsonKeys}

Replied(status, text, ms) == Exchange(TRUE, "", status, TRUE, TRUE, FALSE, <<text>>, ms)
TransportError == Exchange(FALSE, "dial", 0, FALSE, FALSE, FALSE, <<>>, 3)
Cancelled == Exchange(FALSE, "context canceled", 0, FALSE, FALSE, FALSE, <<>>, 1)

\* the kinds of exchange the engine's backends go through
Kinds == {"transport", "wrapped", "prose"}

ExchangeOf(kind, prompt) ==
    CASE kind = "transport" -> TransportError
      [] kind = "exact" -> Replied(200, ExactText(prompt), 2)
      [] kind = "wrapped" -> Replied(200, WrappedText(prompt), 4)
      [] kind = "prose" -> Replied(200, ProseText, 2)
      [] kind = "wrong" -> Replied(200, WrongText(prompt), 5)

Exchanges(prompt) == {ExchangeOf(k, prompt) : k \in Kinds}

\* every exchange client.Do, the body and its decoding allow
AllExchanges(prompt) ==
    {Exchange(FALSE, c, 0, FALSE, FALSE, FALSE, <<>>, 3) : c \in {"dial", "context canceled"}}
    \cup
    {Exchange(TRUE, "", st, rd, js, ae, ch, 2) :
        st \in {200, 204, 301, 404, 429, 500}, rd \in BOOLEAN, js \in BOOLEAN,
        ae \in BOOLEAN,
        ch \in {<<>>, <<ProseText, ExactText(prompt)>>}
                 \cup {<<text>> : text \in ReplyTexts(prompt)}}

(***************************************************************************)
(* The engine.                                                             *)
(***************************************************************************)
VARIABLES
    config,     \* *BenchConfig, shared with the caller
    pc,         \* where Engine.Run is
    ctxDone,    \* the context passed to Run has been cancelled
    symIdx,     \* realtime: the symbol the capture loop is at
    captureLog, \* realtime: what happened to each symbol so far: [ok, saved]
    snapshots,  \* Run's snapshots
    snapIdx,    \* the snapshot the outer loop is at
    runIdx,     \* runIdx of the inner loop
    expected,   \* expected of the current snapshot (<<>> before the first)
    prompt,     \* prompt of the current snapshot
    launched,   \* how many goroutines the current batch has started
    wg,         \* the WaitGroup's counter
    mu,         \* the task holding the mutex, 0 when free
    results,    \* Run's results
    task,       \* the goroutines of the current batch
    ret,        \* what Run returned: [report, err]
    chats,      \* the calls of client.Chat so far: a bag of <<snapshot id, backend, run>>
    control,    \* a second run of the same engine against the same backends
    call        \* one call of a function on its own: [op, arg, out]

vars == <<config, pc, ctxDone, symIdx, captureLog, snapshots, snapIdx, runIdx, expected,
          prompt, launched, wg, mu, results, task, ret, chats, control, call>>

Tasks == 1..MaxModels

\* a goroutine: where it is, its arguments mc and run, its result, and how
\* its network wait ended (how, status)
IdleTask ==
    [pc |-> "idle", mc |-> <<>>, run |-> 0, result |-> <<>>, how |-> "", status |-> 0]

Prefix(seq, n) == SubSeq(seq, 1, n)

\* the tasks a run may launch, at most
Budget(mode) == IF mode = "static" THEN MaxTasks ELSE MaxCaptureTasks

\* a constructor that normalises negative run counts only
NormalRunsKeepsZero(runs) == IF runs < 0 THEN 1 ELSE runs

\* NewEngine: the run count is normalised in the caller's configuration
NormalRuns(runs) == IF runs <= 0 THEN 1 ELSE runs

\* the backends of a configuration: the first n of the pool, or two backends
\* that share a display name
ModelLists ==
    {[i \in 1..n |-> ModelAt(i)] : n \in 0..MaxModels}
    \cup (IF MaxModels >= 2 THEN {<<ModelAt(1), ModelAt(3)>>} ELSE {})

Configs ==
    {c \in [Mode : {"static", "realtime"},
            Symbols : {Prefix(SymbolPool, n) : n \in 0..MaxSymbols},
            KlineCount : {6},
            Models : ModelLists,
            Runs : -1..MaxRuns] :
        /\ c.Mode = "static" => c.Symbols = <<>>
        /\ Len(c.Models) * NormalRuns(c.Runs) <= Budget(c.Mode)}

NoControl == [phase |-> "off", kind |-> <<>>, fail |-> "", first |-> <<>>]
NoCall == [op |-> "", arg |-> <<>>, out |-> <<>>]

InitEngine ==
    /\ pc = "new"
    /\ ctxDone = FALSE
    /\ symIdx = 1
    /\ captureLog = <<>>
    /\ snapshots = <<>>
    /\ snapIdx = 1
    /\ runIdx = 0
    /\ expected = <<>>
    /\ prompt = <<>>
    /\ launched = 0
    /\ wg = 0
    /\ mu = 0
    /\ results = <<>>
    /\ task = [i \in Tasks |-> IdleTask]
    /\ ret = <<>>
    /\ chats = EmptyBag

Init ==
    /\ config \in Configs
    /\ InitEngine
    /\ control = NoControl
    /\ call = NoCall

\* NewEngine(config); call keeps the run count the caller passed
NewEngine ==
    /\ pc = "new"
    /\ call.op = ""
    /\ config' = [config EXCEPT !.Runs = NormalRuns(@)]
    /\ call' = [op |-> "NewEngine", arg |-> [Runs |-> config.Runs], out |-> <<>>]
    /\ pc' = "start"
    /\ UNCHANGED <<ctxDone, symIdx, captureLog, snapshots, snapIdx, runIdx, expected,
                   prompt, launched, wg, mu, results, task, ret, chats, control>>

\* the caller cancels the context
Cancel ==
    /\ pc \notin {"new", "done", "failed"}
    /\ ~ctxDone
    /\ ctxDone' = TRUE
    /\ UNCHANGED <<config, pc, symIdx, captureLog, snapshots, snapIdx, runIdx, expected,
                   prompt, launched, wg, mu, results, task, ret, chats, control, call>>

Fail(msg) ==
    /\ pc' = "failed"
    /\ ret' = <<[report |-> <<>>, err |-> msg]>>

\* call names the call in progress: NewEngine, then Run
RunCall == [op |-> "Run", arg |-> <<>>, out |-> <<>>]

\* Run, static mode: step 1
LoadStatic ==
    /\ pc = "start"
    /\ config.Mode = "static"
    /\ \/ /\ Fail("load snapshots")
          /\ UNCHANGED snapshots
       \/ \E dir \in SUBSET DirEntries : \E loaded \in LoadSnapshots(dir) :
            /\ Len(config.Models) * config.Runs * Len(loaded) <= Budget(config.Mode)
            /\ IF Len(loaded) = 0
               THEN Fail("no snapshots found") /\ UNCHANGED snapshots
               ELSE snapshots' = loaded /\ pc' = "snapshot" /\ UNCHANGED ret
    /\ call' = RunCall
    /\ UNCHANGED <<config, ctxDone, symIdx, captureLog, snapIdx, runIdx, expected, prompt,
                   launched, wg, mu, results, task, chats, control>>

\* what the market may return for a symbol: an error, too few candles, the candles
MarketReplies(symbol, klineCount) ==
    {[ok |-> FALSE, klines |-> <<>>],
     [ok |-> TRUE, klines |-> Prefix(MarketKlines(symbol), klineCount - 1)],
     [ok |-> TRUE, klines |-> Prefix(MarketKlines(symbol), klineCount)]}

\* what a failed capture does to the loop: continue with the next symbol
AfterCaptureError(i, n) == i + 1

\* a capture loop that keeps a snapshot only when it could be saved
KeepSnapshotIfSaved(snaps, snapshot, saved) ==
    IF saved THEN Append(snaps, snapshot) ELSE snaps

\* snapshots = append(snapshots, snapshot), whatever SaveSnapshot returns next
KeepSnapshot(snaps, snapshot, saved) == Append(snaps, snapshot)

\* Run, realtime mode: step 1, one symbol of the loop (the save included)
Capture ==
    /\ pc = "start"
    /\ config.Mode # "static"
    /\ symIdx <= Len(config.Symbols)
    /\ \E got \in MarketReplies(config.Symbols[symIdx], config.KlineCount) :
       \E saved \in BOOLEAN :
         LET snapshot == CaptureSnapshot(config.Symbols[symIdx], config.KlineCount, got, 3)
             n == Len(config.Models) * config.Runs * (Len(snapshots) + 1)
         IN /\ snapshot # <<>> => n <= Budget(config.Mode)
            /\ IF snapshot = <<>>
               THEN /\ symIdx' = AfterCaptureError(symIdx, Len(config.Symbols))
                    /\ captureLog' = Append(captureLog, [ok |-> FALSE, saved |-> FALSE])
                    /\ UNCHANGED snapshots
               ELSE /\ snapshots' = KeepSnapshot(snapshots, snapshot[1], saved)
                    /\ captureLog' = Append(captureLog, [ok |-> TRUE, saved |-> saved])
                    /\ symIdx' = symIdx + 1
    /\ call' = RunCall
    /\ UNCHANGED <<config, pc, ctxDone, snapIdx, runIdx, expected, prompt,
                   launched, wg, mu, results, task, ret, chats, control>>

CaptureDone ==
    /\ pc = "start"
    /\ config.Mode # "static"
    /\ symIdx > Len(config.Symbols)
    /\ pc' = "snapshot"
    /\ call' = RunCall
    /\ UNCHANGED <<config, ctxDone, symIdx, captureLog, snapshots, snapIdx, runIdx,
                   expected, prompt, launched, wg, mu, results, task, ret, chats, control>>

\* a loop head that computes expected and prompt for the first snapshot only
NextSnapshotKeepsExpected ==
    /\ pc = "snapshot"
    /\ snapIdx <= Len(snapshots)
    /\ expected' = IF expected = <<>>
                   THEN <<CalculateIndicators(snapshots[snapIdx].Klines)>>
                   ELSE expected
    /\ prompt' = BuildIndicatorPrompt(snapshots[snapIdx].Klines)
    /\ runIdx' = 0
    /\ pc' = "run"
    /\ UNCHANGED <<config, ctxDone, symIdx, captureLog, snapshots, snapIdx, launched, wg,
                   mu, results, task, ret, chats, control, call>>

\* Run, step 2: the head of the loop over the snapshots
NextSnapshot ==
    /\ pc = "snapshot"
    /\ snapIdx <= Len(snapshots)
    /\ expected' = <<CalculateIndicators(snapshots[snapIdx].Klines)>>
    /\ prompt' = BuildIndicatorPrompt(snapshots[snapIdx].Klines)
    /\ runIdx' = 0
    /\ pc' = "run"
    /\ UNCHANGED <<config, ctxDone, symIdx, captureLog, snapshots, snapIdx, launched, wg,
                   mu, results, task, ret, chats, control, call>>

\* the head of the loop over the run indices
NextRun ==
    /\ pc = "run"
    /\ IF runIdx < config.Runs
       THEN /\ launched' = 0
            /\ pc' = "launch"
            /\ UNCHANGED snapIdx
       ELSE /\ snapIdx' = snapIdx + 1
            /\ pc' = "snapshot"
            /\ UNCHANGED launched
    /\ UNCHANGED <<config, ctxDone, symIdx, captureLog, snapshots, runIdx, expected,
                   prompt, wg, mu, results, task, ret, chats, control, call>>

\* wg.Add(1); go func(mc, run) {...}(modelCfg, runIdx)
Launch ==
    /\ pc = "launch"
    /\ launched < Len(config.Models)
    /\ wg' = wg + 1
    /\ task' = [task EXCEPT ![launched + 1] =
                  [IdleTask EXCEPT !.pc = "start",
                                   !.mc = <<config.Models[launched + 1]>>,
                                   !.run = runIdx]]
    /\ launched' = launched + 1
    /\ UNCHANGED <<config, pc, ctxDone, symIdx, captureLog, snapshots, snapIdx, runIdx,
                   expected, prompt, mu, results, ret, chats, control, call>>

LaunchDone ==
    /\ pc = "launch"
    /\ launched >= Len(config.Models)
    /\ pc' = "wait"
    /\ UNCHANGED <<config, ctxDone, symIdx, captureLog, snapshots, snapIdx, runIdx,
                   expected, prompt, launched, wg, mu, results, task, ret, chats, control, call>>

\* a join that does not wait
WaitReturnsAtOnce(counter) == TRUE

\* wg.Wait() returns when the counter is zero
WaitReturns(counter) == counter = 0

\* wg.Wait(), the delay between runs, runIdx++
Wait ==
    /\ pc = "wait"
    /\ WaitReturns(wg)
    /\ task' = [i \in Tasks |-> IF task[i].pc = "done" THEN IdleTask ELSE task[i]]
    /\ runIdx' = runIdx + 1
    /\ pc' = "run"
    /\ UNCHANGED <<config, ctxDone, symIdx, captureLog, snapshots, snapIdx, expected,
                   prompt, launched, wg, mu, results, ret, chats, control, call>>

\* average, min, max and stdDev of a slice of float64
RECURSIVE SumOf(_, _)
SumOf(values, n) == IF n = 0 THEN Zero ELSE RAdd(SumOf(values, n - 1), values[n])

average(values) ==
    IF Len(values) = 0 THEN Zero ELSE RDiv(SumOf(values, Len(values)), Num(Len(values)))

RECURSIVE MinOf(_, _)
MinOf(values, n) ==
    IF n = 1 THEN values[1]
    ELSE LET m == MinOf(values, n - 1) IN IF RLt(values[n], m) THEN values[n] ELSE m

min(values) == IF Len(values) = 0 THEN Zero ELSE MinOf(values, Len(values))

RECURSIVE MaxOf(_, _)
MaxOf(values, n) ==
    IF n = 1 THEN values[1]
    ELSE LET m == MaxOf(values, n - 1) IN IF RLt(m, values[n]) THEN values[n] ELSE m

max(values) == IF Len(values) = 0 THEN Zero ELSE MaxOf(values, Len(values))

RECURSIVE SumSquares(_, _, _)
SumSquares(values, n, avg) ==
    IF n = 0 THEN Zero
    ELSE LET diff == RSub(values[n], avg)
         IN RAdd(SumSquares(values, n - 1, avg), RMul(diff, diff))

stdDev(values) ==
    IF Len(values) < 2 THEN Zero
    ELSE Sqrt(RDiv(SumSquares(values, Len(values), average(values)),
                   Num(Len(values) - 1)))

\* the keys of modelResults, and modelResults[model], modelInfos[model]
GroupKeys(all) == {all[k].Model : k \in 1..Len(all)}
modelResults(all, model) == SelectSeq(all, LAMBDA r : r.Model = model)
modelInfos(all, model) ==
    LET rs == modelResults(all, model) IN rs[Len(rs)].ModelInfo

\* a consistency that is not clamped at 0
ConsistencyUnclamped(avgScore, sd) ==
    IF ~RLt(Zero, avgScore) THEN Zero
    ELSE RSub(Num(100), RMul(RDiv(sd, avgScore), Num(100)))

\* stat.Consistency
Consistency(avgScore, sd) ==
    IF ~RLt(Zero, avgScore) THEN Zero
    ELSE LET c == RSub(Num(100), RMul(RDiv(sd, avgScore), Num(100)))
         IN IF RLt(c, Zero) THEN Zero ELSE c

\* stat.IndicatorAvgs: the empty map when no successful result has scores
IndicatorAvgs(ok) ==
    LET scored == SelectSeq(ok, LAMBDA r : r.Scores # <<>>)
    IN IF Len(ok) = 0 \/ Len(scored) = 0 THEN <<>>
       ELSE [k \in JsonKeys |->
               average([n \in 1..Len(scored) |-> Num(scored[n].Scores[1][FieldOfKey(k)])])]

\* a summary that counts the failed results as scores of 0
ModelStatisticsOverAll(model, rs, info) ==
    LET scores == [n \in 1..Len(rs) |-> rs[n].TotalScore]
        latencies == [n \in 1..Len(rs) |-> Num(rs[n].Latency)]
    IN [Model |-> model, ModelInfo |-> info, RunCount |-> Len(rs),
        SuccessCount |-> Len(SelectSeq(rs, LAMBDA r : r.Error = "")),
        FailureCount |-> Len(SelectSeq(rs, LAMBDA r : r.Error # "")),
        AvgScore |-> average(scores), MinScore |-> min(scores), MaxScore |-> max(scores),
        StdDev |-> stdDev(scores),
        AvgLatencyMs |-> average(latencies), MinLatencyMs |-> min(latencies),
        MaxLatencyMs |-> max(latencies),
        Consistency |-> Consistency(average(scores), stdDev(scores)),
        IndicatorAvgs |-> IndicatorAvgs(SelectSeq(rs, LAMBDA r : r.Error = ""))]

\* the body of the loop over modelResults: the ModelStatistics of one key
ModelStatistics(model, rs, info) ==
    LET ok == SelectSeq(rs, LAMBDA r : r.Error = "")
        scores == [n \in 1..Len(ok) |-> ok[n].TotalScore]
        latencies == [n \in 1..Len(ok) |-> Num(ok[n].Latency)]
    IN [Model |-> model, ModelInfo |-> info, RunCount |-> Len(rs),
        SuccessCount |-> Len(ok), FailureCount |-> Len(rs) - Len(ok),
        AvgScore |-> average(scores), MinScore |-> min(scores), MaxScore |-> max(scores),
        StdDev |-> stdDev(scores),
        AvgLatencyMs |-> average(latencies), MinLatencyMs |-> min(latencies),
        MaxLatencyMs |-> max(latencies),
        Consistency |-> Consistency(average(scores), stdDev(scores)),
        IndicatorAvgs |-> IndicatorAvgs(ok)]

\* the orders sort.Slice may leave a slice in, under less(a, b) = a.AvgScore >
\* b.AvgScore: every arrangement in which no entry precedes a greater one
SortedByAvgScore(entries) ==
    {[i \in 1..Len(entries) |-> entries[p[i]]] :
        p \in {q \in [1..Len(entries) -> 1..Len(entries)] :
                 /\ \A i, j \in 1..Len(entries) : i # j => q[i] # q[j]
                 /\ \A i, j \in 1..Len(entries) :
                      i < j => ~RLt(entries[q[i]].AvgScore, entries[q[j]].AvgScore)}}

\* calculateStatistics: the slices it may return (the map is ranged over in
\* any order, then sorted)
calculateStatistics(all) ==
    LET keys == GroupKeys(all)
        stat(model) == ModelStatistics(model, modelResults(all, model),
                                       modelInfos(all, model))
    IN UNION {SortedByAvgScore(order) :
                order \in {o \in [1..Cardinality(keys) -> {stat(m) : m \in keys}] :
                             \A i, j \in DOMAIN o : i # j => o[i] # o[j]}}

LeaderboardEntry(s) ==
    [Rank |-> 0, Model |-> s.Model, Provider |-> s.ModelInfo.Provider,
     ModelID |-> s.ModelInfo.Model, AvgScore |-> s.AvgScore, StdDev |-> s.StdDev,
     Consistency |-> s.Consistency, AvgLatency |-> s.AvgLatencyMs, RunCount |-> s.RunCount]

\* ranks that tied entries share
AssignRanksByScore(entries) ==
    [i \in 1..Len(entries) |->
        [entries[i] EXCEPT !.Rank =
            1 + Cardinality({j \in 1..Len(entries) :
                               RLt(entries[i].AvgScore, entries[j].AvgScore)})]]

\* entries[i].Rank = i + 1
AssignRanks(entries) == [i \in 1..Len(entries) |-> [entries[i] EXCEPT !.Rank = i]]

\* calculateLeaderboard: the slices it may return
calculateLeaderboard(stats) ==
    {AssignRanks(sorted) :
        sorted \in SortedByAvgScore([i \in 1..Len(stats) |-> LeaderboardEntry(stats[i])])}

\* a Run that turns a failed task into its own error
ReportFailsOnError(snaps, rs) ==
    IF \E k \in 1..Len(rs) : rs[k].Error # ""
    THEN [report |-> <<>>, err |-> "benchmark failed"]
    ELSE [report |-> <<[Snapshots |-> snaps, Results |-> rs]>>, err |-> ""]

\* what Run returns once the loops are over
Report(snaps, rs) ==
    [report |-> <<[Snapshots |-> snaps, Results |-> rs]>>, err |-> ""]

\* report.Statistics and report.Leaderboard of the report Run returns
WithStatistics(returned, stats, board) ==
    IF returned.report = <<>> THEN returned
    ELSE [report |-> <<[Snapshots |-> returned.report[1].Snapshots,
                        Results |-> returned.report[1].Results,
                        Statistics |-> stats,
                        Leaderboard |-> board]>>,
          err |-> returned.err]

\* Run, from report.Results on
Finish ==
    /\ pc = "snapshot"
    /\ snapIdx > Len(snapshots)
    /\ \E stats \in calculateStatistics(results) :
       \E board \in calculateLeaderboard(stats) :
          ret' = <<WithStatistics(Report(snapshots, results), stats, board)>>
    /\ pc' = "done"
    /\ UNCHANGED <<config, ctxDone, symIdx, captureLog, snapshots, snapIdx, runIdx,
                   expected, prompt, launched, wg, mu, results, task, chats, control, call>>

(***************************************************************************)
(* One goroutine of a batch.                                               *)
(***************************************************************************)
\* how the network wait of an exchange ended
How(x) == IF x.do THEN "reply" ELSE IF x.cause = "context canceled" THEN "canceled" ELSE "error"

\* a task that starts over when its call failed
ReturnedRetries(t, x) ==
    LET r == AfterChat(t.result[1], Chat(x), x.ms)
    IN IF r.Error # "" /\ How(x) = "error"
       THEN [t EXCEPT !.pc = "start"]
       ELSE [t EXCEPT !.pc = IF r.Error # "" THEN "lock" ELSE "parse",
                      !.result = <<r>>,
                      !.how = How(x),
                      !.status = x.status]

\* the task's record once client.Chat has returned for exchange x
Returned(t, x) ==
    LET r == AfterChat(t.result[1], Chat(x), x.ms)
    IN [t EXCEPT !.pc = IF r.Error # "" THEN "lock" ELSE "parse",
                 !.result = <<r>>,
                 !.how = How(x),
                 !.status = x.status]

\* the goroutine starts: runSingleBenchmark up to client.Do.  With the context
\* already cancelled Do returns at once.
TaskStart(i) ==
    /\ task[i].pc = "start"
    /\ LET r == NewResult(snapshots[snapIdx].ID, task[i].mc[1], expected[1], task[i].run)
           t == [task[i] EXCEPT !.pc = "chat", !.result = <<r>>]
       IN task' = [task EXCEPT ![i] = IF ctxDone THEN Returned(t, Cancelled) ELSE t]
    /\ chats' = chats (+) SetToBag({<<snapshots[snapIdx].ID, i, task[i].run>>})
    /\ UNCHANGED <<config, pc, ctxDone, symIdx, captureLog, snapshots, snapIdx, runIdx,
                   expected, prompt, launched, wg, mu, results, ret, control, call>>

\* the exchanges a waiting task may go through: any, and the cancellation once
\* the context is cancelled; under a control the one the backend was given
Offered(t) ==
    IF control.phase = "off"
    THEN Exchanges(prompt) \cup (IF ctxDone THEN {Cancelled} ELSE {})
    ELSE {ExchangeOf(control.kind[t.mc[1].Model], prompt)}

\* the network wait ends
ChatReturn(i) ==
    /\ task[i].pc = "chat"
    /\ \E x \in Offered(task[i]) : task' = [task EXCEPT ![i] = Returned(task[i], x)]
    /\ UNCHANGED <<config, pc, ctxDone, symIdx, captureLog, snapshots, snapIdx, runIdx,
                   expected, prompt, launched, wg, mu, results, ret, chats, control, call>>

\* parsing and scoring the reply
ParseScore(i) ==
    /\ task[i].pc = "parse"
    /\ task' = [task EXCEPT ![i].pc = "lock",
                            ![i].result = <<ParseAndScore(task[i].result[1])>>]
    /\ UNCHANGED <<config, pc, ctxDone, symIdx, captureLog, snapshots, snapIdx, runIdx,
                   expected, prompt, launched, wg, mu, results, ret, chats, control, call>>

\* a lock that never blocks
CanLockAlways(holder) == TRUE

\* mu.Lock() goes through when the mutex is free
CanLock(holder) == holder = 0

Lock(i) ==
    /\ task[i].pc = "lock"
    /\ CanLock(mu)
    /\ mu' = i
    /\ task' = [task EXCEPT ![i].pc = "append"]
    /\ UNCHANGED <<config, pc, ctxDone, symIdx, captureLog, snapshots, snapIdx, runIdx,
                   expected, prompt, launched, wg, results, ret, chats, control, call>>

\* appends that lose results: of failed tasks, of cancelled tasks, and of the
\* tasks that came before a failed one
AppendDropsFailed(rs, result) ==
    IF result.Error # "" THEN rs ELSE Append(rs, result)
AppendSkipsCancelled(rs, result) ==
    IF result.Error = "request failed: context canceled" THEN rs ELSE Append(rs, result)
AppendResetsOnError(rs, result) ==
    IF result.Error # "" THEN <<result>> ELSE Append(rs, result)

\* results = append(results, result)
AppendResult(rs, result) == Append(rs, result)

AppendStep(i) ==
    /\ task[i].pc = "append"
    /\ results' = AppendResult(results, task[i].result[1])
    /\ task' = [task EXCEPT ![i].pc = "unlock"]
    /\ UNCHANGED <<config, pc, ctxDone, symIdx, captureLog, snapshots, snapIdx, runIdx,
                   expected, prompt, launched, wg, mu, ret, chats, control, call>>

Unlock(i) ==
    /\ task[i].pc = "unlock"
    /\ mu' = 0
    /\ task' = [task EXCEPT ![i].pc = "log"]
    /\ UNCHANGED <<config, pc, ctxDone, symIdx, captureLog, snapshots, snapIdx, runIdx,
                   expected, prompt, launched, wg, results, ret, chats, control, call>>

\* a goroutine that reaches wg.Done() only when its result has no error
TaskDoneLeaks(i) ==
    /\ task[i].pc = "log"
    /\ wg' = IF task[i].result[1].Error = "" THEN wg - 1 ELSE wg
    /\ task' = [task EXCEPT ![i] = [IdleTask EXCEPT !.pc = "done"]]
    /\ UNCHANGED <<config, pc, ctxDone, symIdx, captureLog, snapshots, snapIdx, runIdx,
                   expected, prompt, launched, mu, results, ret, chats, control, call>>

\* the log line, then the deferred wg.Done()
TaskDone(i) ==
    /\ task[i].pc = "log"
    /\ wg' = wg - 1
    /\ task' = [task EXCEPT ![i] = [IdleTask EXCEPT !.pc = "done"]]
    /\ UNCHANGED <<config, pc, ctxDone, symIdx, captureLog, snapshots, snapIdx, runIdx,
                   expected, prompt, launched, mu, results, ret, chats, control, call>>

TaskStep ==
    \E i \in Tasks :
        \/ TaskStart(i)
        \/ ChatReturn(i)
        \/ ParseScore(i)
        \/ Lock(i)
        \/ AppendStep(i)
        \/ Unlock(i)
        \/ TaskDone(i)

EngineStep ==
    \/ NewEngine
    \/ LoadStatic
    \/ Capture
    \/ CaptureDone
    \/ NextSnapshot
    \/ NextRun
    \/ Launch
    \/ LaunchDone
    \/ Wait
    \/ Finish
    \/ TaskStep

Next ==
    \/ EngineStep
    \/ Cancel

Spec == Init /\ [][Next]_vars

(***************************************************************************)
(* Run under a scheduler that lets every runnable goroutine run, with       *)
(* backend calls and acquisitions that return.  A step that computes the    *)
(* indicators, reads a reply, scores it or builds the report is possible    *)
(* wherever its guard holds, so fairness names it by its guard and its move.*)
(***************************************************************************)
SnapshotTurn ==
    /\ pc = "snapshot"
    /\ snapIdx <= Len(snapshots)
    /\ pc' = "run"
    /\ UNCHANGED <<config, ctxDone, symIdx, captureLog, snapshots, snapIdx, runIdx,
                   expected, prompt, launched, wg, mu, results, task, ret, chats, control,
                   call>>

FinishTurn ==
    /\ pc = "snapshot"
    /\ snapIdx > Len(snapshots)
    /\ pc' = "done"
    /\ UNCHANGED <<config, ctxDone, symIdx, captureLog, snapshots, snapIdx, runIdx,
                   expected, prompt, launched, wg, mu, results, task, ret, chats, control,
                   call>>

ChatTurn(i) ==
    /\ task[i].pc = "chat"
    /\ task' = [task EXCEPT ![i].pc = "parse"]
    /\ UNCHANGED <<config, pc, ctxDone, symIdx, captureLog, snapshots, snapIdx, runIdx,
                   expected, prompt, launched, wg, mu, results, ret, chats, control, call>>

ParseTurn(i) ==
    /\ task[i].pc = "parse"
    /\ task' = [task EXCEPT ![i].pc = "lock"]
    /\ UNCHANGED <<config, pc, ctxDone, symIdx, captureLog, snapshots, snapIdx, runIdx,
                   expected, prompt, launched, wg, mu, results, ret, chats, control, call>>

Scheduled ==
    \/ NewEngine \/ LoadStatic \/ Capture \/ CaptureDone \/ SnapshotTurn \/ NextRun
    \/ Launch \/ LaunchDone \/ Wait \/ FinishTurn
    \/ \E i \in Tasks :
         \/ TaskStart(i) \/ ChatTurn(i) \/ ParseTurn(i) \/ Lock(i) \/ AppendStep(i)
         \/ Unlock(i) \/ TaskDone(i)

\* the configurations of the fair runs: the first n backends of the pool, and
\* no more symbols than a run can take when every capture succeeds
InitFair ==
    /\ config \in {c \in Configs :
                     /\ c.Models \in {[i \in 1..n |-> ModelAt(i)] : n \in 0..MaxModels}
                     /\ Len(c.Models) * Len(c.Symbols) <= Budget(c.Mode)}
    /\ InitEngine
    /\ control = NoControl
    /\ call = NoCall

SpecFair == InitFair /\ [][Next]_vars /\ WF_vars(Scheduled)

(***************************************************************************)
(* The same engine run twice against the same backends: a run in which one *)
(* backend is made to fail, then a control run without that backend, on    *)
(* the snapshots the first run acquired.                                   *)
(***************************************************************************)
FailingKinds == {"transport", "prose"}

Controls(models) ==
    LET ids == {models[i].Model : i \in 1..Len(models)}
    IN {c \in [phase : {"main"}, kind : [ids -> Kinds], fail : ids, first : {<<>>}] :
          c.kind[c.fail] \in FailingKinds}

InitControl ==
    /\ config \in {c \in Configs : Len(c.Models) >= 2}
    /\ InitEngine
    /\ control \in Controls(config.Models)
    /\ call = NoCall

Without(models, id) ==
    LET keep == {i \in 1..Len(models) : models[i].Model # id}
        nth(n) == CHOOSE i \in keep : Cardinality({j \in keep : j < i}) = n - 1
    IN [n \in 1..Cardinality(keep) |-> models[nth(n)]]

StartControl ==
    /\ control.phase = "main"
    /\ pc = "done"
    /\ control' = [control EXCEPT !.phase = "control", !.first = results]
    /\ config' = [config EXCEPT !.Models = Without(@, control.fail)]
    /\ pc' = "snapshot"
    /\ snapIdx' = 1
    /\ runIdx' = 0
    /\ expected' = <<>>
    /\ prompt' = <<>>
    /\ launched' = 0
    /\ results' = <<>>
    /\ task' = [i \in Tasks |-> IdleTask]
    /\ ret' = <<>>
    /\ chats' = EmptyBag
    /\ UNCHANGED <<ctxDone, symIdx, captureLog, snapshots, wg, mu, call>>

NextControl ==
    \/ EngineStep
    \/ StartControl

SpecControl == InitControl /\ [][NextControl]_vars

(***************************************************************************)
(* One call of runSingleBenchmark on its own, for every exchange.          *)
(***************************************************************************)
CallSnapshots == {e.snap[1] : e \in {d \in DirEntries : d.snap # <<>>}}

InitCall ==
    /\ config = CHOOSE c \in Configs : c.Mode = "static" /\ c.Models = <<>> /\ c.Runs = 1
    /\ InitEngine
    /\ control = NoControl
    /\ call \in {[op |-> "runSingleBenchmark",
                  arg |-> [snapshot |-> sn, mc |-> ModelAt(m), run |-> r, x |-> x],
                  out |-> <<>>] :
                    sn \in CallSnapshots, m \in 1..MaxModels, r \in 0..(MaxRuns - 1),
                    x \in UNION {AllExchanges(BuildIndicatorPrompt(q.Klines)) :
                                    q \in CallSnapshots}}

CallRunSingle ==
    /\ call.op = "runSingleBenchmark"
    /\ call.out = <<>>
    /\ call' = [call EXCEPT !.out =
                 <<runSingleBenchmark(call.arg.snapshot.ID, call.arg.mc,
                                      CalculateIndicators(call.arg.snapshot.Klines),
                                      call.arg.run, call.arg.x)>>]
    /\ UNCHANGED <<config, pc, ctxDone, symIdx, captureLog, snapshots, snapIdx, runIdx,
                   expected, prompt, launched, wg, mu, results, task, ret, chats, control>>

NextCall == CallRunSingle

SpecCall == InitCall /\ [][NextCall]_vars

(***************************************************************************)
(* calculateStatistics and calculateLeaderboard on their own, on the       *)
(* results of a run of one snapshot: every backend of the configuration    *)
(* called once per run index, each call ending in one of the exchanges.    *)
(***************************************************************************)
StatKinds == Kinds \cup {"exact", "wrong"}

\* the results of runs run indices of the backends models on snapshot sn, the
\* j-th call ending as kinds[j]
ResultsOfRun(sn, models, runs, kinds) ==
    [j \in 1..(Len(models) * runs) |->
        runSingleBenchmark(sn.ID, models[((j - 1) % Len(models)) + 1],
                           CalculateIndicators(sn.Klines), (j - 1) \div Len(models),
                           ExchangeOf(kinds[j], BuildIndicatorPrompt(sn.Klines)))]

InitStats ==
    /\ config = CHOOSE c \in Configs : c.Mode = "static" /\ c.Models = <<>> /\ c.Runs = 1
    /\ InitEngine
    /\ control = NoControl
    /\ \E models \in ModelLists, runs \in 1..MaxRuns :
       /\ Len(models) * runs <= MaxTasks
       /\ \E kinds \in [1..(Len(models) * runs) -> StatKinds] :
          call = [op |-> "calculateStatistics",
                  arg |-> [models |-> models, runs |-> runs,
                           results |-> ResultsOfRun(Snapshot(2, "BTC", RisingSeries),
                                                    models, runs, kinds)],
                  out |-> <<>>]

\* report.Statistics = e.calculateStatistics(results)
CallStatistics ==
    /\ call.op = "calculateStatistics"
    /\ Len(call.out) = 0
    /\ \E stats \in calculateStatistics(call.arg.results) : call' = [call EXCEPT !.out = <<stats>>]
    /\ UNCHANGED <<config, pc, ctxDone, symIdx, captureLog, snapshots, snapIdx, runIdx,
                   expected, prompt, launched, wg, mu, results, task, ret, chats, control>>

\* report.Leaderboard = e.calculateLeaderboard(report.Statistics)
CallLeaderboard ==
    /\ call.op = "calculateStatistics"
    /\ Len(call.out) = 1
    /\ \E board \in calculateLeaderboard(call.out[1]) :
          call' = [call EXCEPT !.out = <<call.out[1], board>>]
    /\ UNCHANGED <<config, pc, ctxDone, symIdx, captureLog, snapshots, snapIdx, runIdx,
                   expected, prompt, launched, wg, mu, results, task, ret, chats, control>>

NextStats ==
    \/ CallStatistics
    \/ CallLeaderboard

SpecStats == InitStats /\ [][NextStats]_vars

(***************************************************************************)
(* The scorer on its own: one call of ScoreFromError, of CalculateError or *)
(* of ScoreIndicators followed by CalculateTotalScore.                     *)
(***************************************************************************)
\* error percentages on, just above and between the thresholds, of both signs
ErrorPcts ==
    LET e == {Zero, Rat(1, 20), Rat(1, 10), Rat(10001, 100000), Rat(1, 2), Num(1),
              Rat(100001, 100000), Num(3), Num(5), Rat(500001, 100000), Num(7),
              Num(10), Rat(1000001, 100000), Num(50)}
    IN e \cup {RNeg(x) : x \in e}

ErrorInputs ==
    {Zero, Num(1), Num(-1), Num(5), Num(-5), Num(99), Num(100), Num(101), Rat(1, 3),
     Num(1000), Num(1003)}

\* an expected vector with no zero, and the one of a series too short for most
\* indicators
ExpectedVectors ==
    {[f \in Fields |-> IF f = "MACD" THEN Num(-20) ELSE IF f = "RSI14" THEN Num(50)
                       ELSE Num(1000)],
     CalculateIndicators(RisingSeries)}

Factors ==
    {Num(1), Rat(1001, 1000), Rat(1003, 1000), Rat(1005, 1000), Rat(101, 100),
     Rat(103, 100), Rat(21, 20), Rat(11, 10), Rat(6, 5), Zero, Num(-1)}

\* an answer whose indicators are off by different amounts
MixedFactors ==
    [MA20 |-> Num(1), EMA12 |-> Rat(1005, 1000), EMA26 |-> Rat(103, 100),
     MACD |-> Rat(11, 10), RSI14 |-> Rat(6, 5), BOLLUp |-> Rat(1001, 1000),
     BOLLMid |-> Num(1), BOLLLow |-> Rat(21, 20), ATR14 |-> Zero, VolumeMA |-> Num(-1)]

\* the answers to an expected vector: one indicator off by a factor, all of
\* them off by the same factor, or each off by its own
ActualVectors(want) ==
    {[want EXCEPT ![f] = RMul(@, k)] : f \in Fields, k \in Factors}
    \cup {[f \in Fields |-> RMul(want[f], k)] : k \in Factors}
    \cup {[f \in Fields |-> RMul(want[f], MixedFactors[f])]}

InitScore ==
    /\ config = CHOOSE c \in Configs : c.Mode = "static" /\ c.Models = <<>> /\ c.Runs = 1
    /\ InitEngine
    /\ control = NoControl
    /\ call \in {[op |-> "ScoreFromError", arg |-> [errorPct |-> e], out |-> <<>>] :
                    e \in ErrorPcts}
           \cup {[op |-> "CalculateError", arg |-> [expected |-> e, actual |-> a],
                  out |-> <<>>] : e \in ErrorInputs, a \in ErrorInputs}
           \cup UNION {{[op |-> "ScoreIndicators", arg |-> [expected |-> e, actual |-> a],
                         out |-> <<>>] : a \in ActualVectors(e)} : e \in ExpectedVectors}

CallScoreFromError ==
    /\ call.op = "ScoreFromError"
    /\ call.out = <<>>
    /\ call' = [call EXCEPT !.out = <<ScoreFromError(call.arg.errorPct)>>]
    /\ UNCHANGED <<config, pc, ctxDone, symIdx, captureLog, snapshots, snapIdx, runIdx,
                   expected, prompt, launched, wg, mu, results, task, ret, chats, control>>

CallCalculateError ==
    /\ call.op = "CalculateError"
    /\ call.out = <<>>
    /\ call' = [call EXCEPT !.out = <<CalculateError(call.arg.expected, call.arg.actual)>>]
    /\ UNCHANGED <<config, pc, ctxDone, symIdx, captureLog, snapshots, snapIdx, runIdx,
                   expected, prompt, launched, wg, mu, results, task, ret, chats, control>>

\* result.Scores, result.Errors = ScoreIndicators(expected, actual), then
\* result.TotalScore = CalculateTotalScore(result.Scores)
CallScoreIndicators ==
    /\ call.op = "ScoreIndicators"
    /\ call.out = <<>>
    /\ LET scored == ScoreIndicators(call.arg.expected, call.arg.actual)
       IN call' = [call EXCEPT !.out = <<[Scores |-> scored.scores,
                                          Errors |-> scored.errors,
                                          TotalScore |-> CalculateTotalScore(scored.scores)]>>]
    /\ UNCHANGED <<config, pc, ctxDone, symIdx, captureLog, snapshots, snapIdx, runIdx,
                   expected, prompt, launched, wg, mu, results, task, ret, chats, control>>

NextScore ==
    \/ CallScoreFromError
    \/ CallCalculateError
    \/ CallScoreIndicators

SpecScore == InitScore /\ [][NextScore]_vars

(***************************************************************************)
(* The market calculations on their own.  Each call also records the Go    *)
(* indices of the series its loops read.                                   *)
(***************************************************************************)
\* the indices read by the loops of CalculateEMA
EMAReads(n, period) ==
    IF n < period THEN {} ELSE (0..(period - 1)) \cup (period..(n - 1))

\* by the loops of CalculateSMA, CalculateBOLL and CalculateVolumeMA
WindowReads(n, period) ==
    IF n < period THEN {} ELSE (n - period)..(n - 1)

\* by the loops of CalculateRSI: klines[i] and klines[i-1]
RSIReads(n, period) ==
    IF n <= period THEN {}
    ELSE UNION {{i, i - 1} : i \in (1..period) \cup ((period + 1)..(n - 1))}

\* by the loops of CalculateATR: klines[i] and klines[i-1]
ATRReads(n, period) ==
    IF n <= period THEN {} ELSE UNION {{i, i - 1} : i \in 1..(n - 1)}

MACDReads(n) ==
    IF n < 26 THEN {} ELSE EMAReads(n, 12) \cup EMAReads(n, 26)

Candle(c) == Kline(c, c + 1, c - 1, c, 10 * c)
SeriesOf(closes) == [i \in 1..Len(closes) |-> Candle(closes[i])]
ConstantSeries(c, n) == [i \in 1..n |-> Candle(c)]
LinearSeries(start, step, n) == [i \in 1..n |-> Candle(start + step * (i - 1))]
\* constant closes with a different last close
StepSeries(c, n, last) == [i \in 1..n |-> Candle(IF i = n THEN last ELSE c)]

ShortSeries == {SeriesOf(closes) : closes \in UNION {[1..n -> {9, 10, 12}] : n \in 0..MaxLen}}
ShortPeriods == 1..(MaxLen + 1)
LongLengths == {0, 1, 5, 11, 12, 13, 14, 15, 16, 19, 20, 21, 25, 26, 27}
LongPeriods == {12, 14, 20, 26}
FlatLong == {ConstantSeries(100, n) : n \in LongLengths}
StepLong == {StepSeries(100, n, 113) : n \in LongLengths}
RisingLong == {LinearSeries(10, 1, n) : n \in LongLengths}

MarketCall(op, klines, period) ==
    [op |-> op, arg |-> [klines |-> klines, period |-> period], out |-> <<>>]

MarketCalls ==
    {MarketCall(op, k, p) :
        op \in {"CalculateSMA", "CalculateEMA", "CalculateRSI", "CalculateATR",
                "CalculateBOLL", "CalculateVolumeMA"},
        k \in ShortSeries, p \in ShortPeriods}
    \cup {MarketCall(op, k, p) :
        op \in {"CalculateSMA", "CalculateEMA", "CalculateBOLL", "CalculateVolumeMA"},
        k \in FlatLong, p \in LongPeriods}
    \cup {MarketCall(op, k, p) :
        op \in {"CalculateSMA", "CalculateBOLL", "CalculateVolumeMA", "CalculateRSI",
                "CalculateATR"},
        k \in RisingLong \cup StepLong, p \in LongPeriods}
    \cup UNION {{MarketCall("CalculateEMA", k, p) :
                    k \in {q \in RisingLong \cup StepLong : Len(q) <= p + 2}} :
                 p \in LongPeriods}
    \cup {MarketCall("CalculateEMA", k, 12) : k \in StepLong}
    \cup {MarketCall(op, k, 0) :
        op \in {"CalculateMACD", "CalculateIndicators"},
        k \in FlatLong \cup StepLong \cup ShortSeries}

InitMarket ==
    /\ config = CHOOSE c \in Configs : c.Mode = "static" /\ c.Models = <<>> /\ c.Runs = 1
    /\ InitEngine
    /\ control = NoControl
    /\ call \in MarketCalls

\* the value and the reads of the call of one calculation
MarketOut(op, klines, period) ==
    LET n == Len(klines)
    IN CASE op = "CalculateSMA" ->
              [value |-> CalculateSMA(klines, period), reads |-> WindowReads(n, period)]
         [] op = "CalculateEMA" ->
              [value |-> CalculateEMA(klines, period), reads |-> EMAReads(n, period)]
         [] op = "CalculateRSI" ->
              [value |-> CalculateRSI(klines, period), reads |-> RSIReads(n, period)]
         [] op = "CalculateATR" ->
              [value |-> CalculateATR(klines, period), reads |-> ATRReads(n, period)]
         [] op = "CalculateBOLL" ->
              [value |-> CalculateBOLL(klines, period, Num(2)),
               reads |-> WindowReads(n, period)]
         [] op = "CalculateVolumeMA" ->
              [value |-> CalculateVolumeMA(klines, period), reads |-> WindowReads(n, period)]
         [] op = "CalculateMACD" ->
              [value |-> CalculateMACD(klines), reads |-> MACDReads(n)]

CallMarket ==
    /\ call.op \in {"CalculateSMA", "CalculateEMA", "CalculateRSI", "CalculateATR",
                    "CalculateBOLL", "CalculateVolumeMA", "CalculateMACD"}
    /\ call.out = <<>>
    /\ call' = [call EXCEPT !.out = <<MarketOut(call.op, call.arg.klines, call.arg.period)>>]
    /\ UNCHANGED <<config, pc, ctxDone, symIdx, captureLog, snapshots, snapIdx, runIdx,
                   expected, prompt, launched, wg, mu, results, task, ret, chats, control>>

CallCalculateIndicators ==
    /\ call.op = "CalculateIndicators"
    /\ call.out = <<>>
    /\ call' = [call EXCEPT !.out = <<CalculateIndicators(call.arg.klines)>>]
    /\ UNCHANGED <<config, pc, ctxDone, symIdx, captureLog, snapshots, snapIdx, runIdx,
                   expected, prompt, launched, wg, mu, results, task, ret, chats, control>>

NextMarket ==
    \/ CallMarket
    \/ CallCalculateIndicators

SpecMarket == InitMarket /\ [][NextMarket]_vars

(***************************************************************************)
(* llm: the QwenAgent client.  One agent, its calls one after the other.    *)
(* A call is recorded with the request it built, and the trace keeps, for   *)
(* each call, the session id the request carried and the session ids of     *)
(* the responses and chunks that were decoded, in order.                    *)
(***************************************************************************)
SessionIDs == {"", "s1", "s2"}

\* NewQwenAgent: the fields the calls read or write
NewQwenAgent == [SessionID |-> ""]

\* a decoded QwenResponse
QwenResponse(sid, code) == [Output |-> [SessionID |-> sid], Code |-> code]

\* what a.Client.Do, io.ReadAll and json.Unmarshal allow for one completion
QwenExchanges ==
    {[do |-> FALSE, read |-> FALSE, json |-> FALSE, result |-> <<>>],
     [do |-> TRUE, read |-> FALSE, json |-> FALSE, result |-> <<>>],
     [do |-> TRUE, read |-> TRUE, json |-> FALSE, result |-> <<>>]}
    \cup {[do |-> TRUE, read |-> TRUE, json |-> TRUE, result |-> <<QwenResponse(sid, code)>>] :
            sid \in SessionIDs, code \in {"", "Throttling"}}

\* a Chat that returns on an API error code before it looks at the session id
QwenChatChecksCodeFirst(a, x) ==
    LET request == [Input |-> "prompt", Parameters |-> [SessionID |-> a.SessionID]]
    IN IF ~x.do THEN [agent |-> a, request |-> request, err |-> "request failed"]
       ELSE IF ~x.read THEN [agent |-> a, request |-> request, err |-> "read response failed"]
       ELSE IF ~x.json
       THEN [agent |-> a, request |-> request, err |-> "unmarshal response failed"]
       ELSE IF x.result[1].Code # ""
       THEN [agent |-> a, request |-> request, err |-> "API error"]
       ELSE [agent |-> IF x.result[1].Output.SessionID # ""
                       THEN [a EXCEPT !.SessionID = x.result[1].Output.SessionID]
                       ELSE a,
             request |-> request,
             err |-> ""]

\* QwenAgent.Chat: [agent, request, err]
QwenChat(a, x) ==
    LET request == [Input |-> "prompt", Parameters |-> [SessionID |-> a.SessionID]]
    IN IF ~x.do THEN [agent |-> a, request |-> request, err |-> "request failed"]
       ELSE IF ~x.read THEN [agent |-> a, request |-> request, err |-> "read response failed"]
       ELSE IF ~x.json
       THEN [agent |-> a, request |-> request, err |-> "unmarshal response failed"]
       ELSE [agent |-> IF x.result[1].Output.SessionID # ""
                       THEN [a EXCEPT !.SessionID = x.result[1].Output.SessionID]
                       ELSE a,
             request |-> request,
             err |-> IF x.result[1].Code # "" THEN "API error" ELSE ""]

\* QwenAgent.ChatWithBizParams: Chat with biz_params in the input
QwenChatWithBizParams(a, x) ==
    LET request == [Input |-> "prompt", BizParams |-> "bizParams",
                    Parameters |-> [SessionID |-> a.SessionID]]
    IN IF ~x.do THEN [agent |-> a, request |-> request, err |-> "request failed"]
       ELSE IF ~x.read THEN [agent |-> a, request |-> request, err |-> "read response failed"]
       ELSE IF ~x.json
       THEN [agent |-> a, request |-> request, err |-> "unmarshal response failed"]
       ELSE [agent |-> IF x.result[1].Output.SessionID # ""
                       THEN [a EXCEPT !.SessionID = x.result[1].Output.SessionID]
                       ELSE a,
             request |-> request,
             err |-> IF x.result[1].Code # "" THEN "API error" ELSE ""]

\* the lines of a stream: a line without the data: prefix, a data line that is
\* not JSON, and a data line that decodes to a chunk
StreamLines ==
    {[kind |-> "other", chunk |-> <<>>], [kind |-> "bad", chunk |-> <<>>]}
    \cup {[kind |-> "data", chunk |-> <<QwenResponse(sid, "")>>] : sid \in SessionIDs}

\* the numbers of complete lines of a stream
StreamLengths == {0, 1, 2}

\* a stream: its complete lines, how reading ended, and what was read of a
\* line that the end cut short
QwenStreams ==
    {[do |-> FALSE, lines |-> <<>>, end |-> "", tail |-> <<>>]}
    \cup {[do |-> TRUE, lines |-> l, end |-> e, tail |-> t] :
            l \in UNION {[1..n -> StreamLines] : n \in StreamLengths},
            e \in {"EOF", "error"},
            t \in {<<>>, <<[kind |-> "data", chunk |-> <<QwenResponse("s2", "")>>]>>}}

\* the loop of ChatStream from line i on
RECURSIVE ReadStream(_, _, _)
ReadStream(a, lines, i) ==
    IF i > Len(lines) THEN a
    ELSE IF lines[i].kind # "data" THEN ReadStream(a, lines, i + 1)
    ELSE IF lines[i].chunk[1].Output.SessionID # ""
    THEN ReadStream([a EXCEPT !.SessionID = lines[i].chunk[1].Output.SessionID],
                    lines, i + 1)
    ELSE ReadStream(a, lines, i + 1)

\* QwenAgent.ChatStream: a line cut short by the end of the stream is dropped
QwenChatStream(a, x) ==
    LET request == [Input |-> "prompt",
                    Parameters |-> [SessionID |-> a.SessionID, IncrementalOutput |-> TRUE]]
    IN IF ~x.do THEN [agent |-> a, request |-> request, err |-> "request failed"]
       ELSE [agent |-> ReadStream(a, x.lines, 1),
             request |-> request,
             err |-> IF x.end = "EOF" THEN "" ELSE "read stream failed"]

\* what the compatible-mode endpoint allows
ModelExchanges ==
    {[do |-> FALSE, read |-> FALSE, json |-> FALSE, error |-> FALSE],
     [do |-> TRUE, read |-> FALSE, json |-> FALSE, error |-> FALSE],
     [do |-> TRUE, read |-> TRUE, json |-> FALSE, error |-> FALSE],
     [do |-> TRUE, read |-> TRUE, json |-> TRUE, error |-> FALSE],
     [do |-> TRUE, read |-> TRUE, json |-> TRUE, error |-> TRUE]}

\* QwenAgent.ChatWithModel
QwenChatWithModel(a, x) ==
    [agent |-> a,
     request |-> [Model |-> "model", Messages |-> "prompt"],
     err |-> IF ~x.do THEN "request failed"
             ELSE IF ~x.read THEN "read response failed"
             ELSE IF ~x.json THEN "unmarshal response failed"
             ELSE IF x.error THEN "API error"
             ELSE ""]

\* QwenAgent.ResetSession
QwenResetSession(a) == [a EXCEPT !.SessionID = ""]

\* the session id a request carries, if it has the field
Sent(request) ==
    IF "Parameters" \in DOMAIN request THEN <<request.Parameters.SessionID>> ELSE <<>>

\* the session ids of the responses and chunks a call decoded, in order
RECURSIVE ChunkIDs(_, _)
ChunkIDs(lines, i) ==
    IF i > Len(lines) THEN <<>>
    ELSE IF lines[i].kind = "data"
    THEN <<lines[i].chunk[1].Output.SessionID>> \o ChunkIDs(lines, i + 1)
    ELSE ChunkIDs(lines, i + 1)

Heard(op, x) ==
    CASE op \in {"Chat", "ChatWithBizParams"} ->
           IF x.do /\ x.read /\ x.json THEN <<x.result[1].Output.SessionID>> ELSE <<>>
      [] op = "ChatStream" -> IF x.do THEN ChunkIDs(x.lines, 1) ELSE <<>>
      [] OTHER -> <<>>

InitQwen ==
    /\ config = CHOOSE c \in Configs : c.Mode = "static" /\ c.Models = <<>> /\ c.Runs = 1
    /\ InitEngine
    /\ control = NoControl
    /\ call = [op |-> "NewQwenAgent", arg |-> <<>>,
               out |-> [agent |-> NewQwenAgent, request |-> <<>>, err |-> "", trace |-> <<>>]]

\* one call on the agent, recorded
Recorded(op, x, r) ==
    /\ Len(call.out.trace) < MaxCalls
    /\ call' = [op |-> op, arg |-> x,
                out |-> [agent |-> r.agent, request |-> r.request, err |-> r.err,
                         trace |-> Append(call.out.trace,
                                          [op |-> op, sent |-> Sent(r.request),
                                           heard |-> Heard(op, x)])]]
    /\ UNCHANGED <<config, pc, ctxDone, symIdx, captureLog, snapshots, snapIdx, runIdx,
                   expected, prompt, launched, wg, mu, results, task, ret, chats, control>>

CallChat == \E x \in QwenExchanges : Recorded("Chat", x, QwenChat(call.out.agent, x))

CallChatStream ==
    \E x \in QwenStreams : Recorded("ChatStream", x, QwenChatStream(call.out.agent, x))

CallChatWithBizParams ==
    \E x \in QwenExchanges :
        Recorded("ChatWithBizParams", x, QwenChatWithBizParams(call.out.agent, x))

CallChatWithModel ==
    \E x \in ModelExchanges :
        Recorded("ChatWithModel", x, QwenChatWithModel(call.out.agent, x))

CallResetSession ==
    Recorded("ResetSession", <<>>,
             [agent |-> QwenResetSession(call.out.agent), request |-> <<>>, err |-> ""])

NextQwen ==
    \/ CallChat
    \/ CallChatStream
    \/ CallChatWithBizParams
    \/ CallChatWithModel
    \/ CallResetSession

SpecQwen == InitQwen /\ [][NextQwen]_vars

(***************************************************************************)
(* Properties.                                                             *)
(***************************************************************************)
Finished == pc = "done"
Returned1 == ret[1]
NModels == Len(config.Models)
InFlight(i) == task[i].pc \notin {"idle", "done"}
Range(seq) == {seq[k] : k \in 1..Len(seq)}
Failed(r) == r.Error # ""
SamePair(r, q) == r.SnapshotID = q.SnapshotID /\ r.RunIndex = q.RunIndex

\* the results of the task launched for snapshot s, backend b and run index r
ResultsOf(rs, s, b, r) ==
    {k \in 1..Len(rs) :
        /\ rs[k].SnapshotID = snapshots[s].ID
        /\ rs[k].Model = config.Models[b].Name
        /\ rs[k].ModelInfo.Provider = config.Models[b].Provider
        /\ rs[k].ModelInfo.Model = config.Models[b].Model
        /\ rs[k].RunIndex = r}

\* C1: when Run returns a report, report.Results holds exactly one result for
\* every (snapshot, backend, run index) triple, S*N*R in all, carrying the
\* snapshot id, backend name and run index of its task; a task whose backend
\* call failed carries a non-empty Error.
C1_EveryTripleOnce ==
    /\ Finished =>
         LET rs == Returned1.report[1].Results
         IN /\ Len(rs) = Len(snapshots) * NModels * config.Runs
            /\ \A s \in 1..Len(snapshots), b \in 1..NModels, r \in 0..(config.Runs - 1) :
                 Cardinality(ResultsOf(rs, s, b, r)) = 1
    /\ \A i \in Tasks :
         task[i].how \in {"error", "canceled"} => Failed(task[i].result[1])

C1_Witness ==
    /\ Finished
    /\ NModels = 2 /\ config.Runs = 2
    /\ Len(Returned1.report[1].Results) = 4
    /\ \E r, q \in Range(Returned1.report[1].Results) : Failed(r) /\ ~Failed(q)

\* C2: every task in flight belongs to the (snapshot, run index) pair the
\* loops are at, Run is then launching or waiting for that pair, and all the
\* results of the earlier pairs are in the collection before any task of the
\* current pair is.
C2_Barrier ==
    /\ \A i \in Tasks :
         InFlight(i) =>
           /\ pc \in {"launch", "wait"}
           /\ task[i].run = runIdx
           /\ task[i].result # <<>> =>
                /\ task[i].result[1].SnapshotID = snapshots[snapIdx].ID
                /\ task[i].result[1].RunIndex = runIdx
    /\ pc \in {"launch", "wait"} =>
         Len(results) = NModels * ((snapIdx - 1) * config.Runs + runIdx)
                        + Cardinality({i \in Tasks : task[i].pc \in {"unlock", "log", "done"}})

C2_Witness ==
    /\ \E i, j \in Tasks : i # j /\ InFlight(i) /\ InFlight(j)
    /\ snapIdx > 1 \/ runIdx > 0
    /\ Len(results) = NModels * ((snapIdx - 1) * config.Runs + runIdx)
    /\ Len(results) > 0

\* the results that are final: those collected and those of the tasks past scoring
FinalResults ==
    Range(results)
    \cup {task[i].result[1] : i \in {j \in Tasks : task[j].pc \in {"lock", "append", "unlock", "log"}}}

ExpectedOf(id) ==
    CalculateIndicators((CHOOSE sn \in Range(snapshots) : sn.ID = id).Klines)

Identified(r) ==
    /\ \E sn \in Range(snapshots) : sn.ID = r.SnapshotID
    /\ \E b \in 1..NModels :
         r.Model = config.Models[b].Name /\ r.ModelInfo.Model = config.Models[b].Model
    /\ r.RunIndex \in 0..(config.Runs - 1)
    /\ r.Expected = <<ExpectedOf(r.SnapshotID)>>
    /\ r.Latency > 0

\* C3: a failed task (backend error or unparsable reply) yields a result with
\* a non-empty Error, Actual, Scores and Errors unset and TotalScore 0, its
\* Expected, Latency and identifying fields set; a successful one has an empty
\* Error and Actual, Scores, Errors and TotalScore set; and a failure leaves
\* the batch complete.
C3_ResultShape ==
    /\ \A r \in FinalResults :
         /\ Identified(r)
         /\ Failed(r) <=> (r.RawOutput = <<>> \/ ~ParseIndicatorResponse(r.RawOutput).ok)
         /\ IF Failed(r)
            THEN /\ r.Actual = <<>>
                 /\ r.Scores = <<>>
                 /\ DOMAIN r.Errors = {}
                 /\ r.TotalScore = Zero
            ELSE /\ r.Actual = <<ParseIndicatorResponse(r.RawOutput).val>>
                 /\ r.Scores = <<ScoreIndicators(r.Expected[1], r.Actual[1]).scores>>
                 /\ DOMAIN r.Errors = JsonKeys
                 /\ r.TotalScore = CalculateTotalScore(r.Scores[1])
    /\ \A i \in Tasks :
         task[i].pc \in {"lock", "append", "unlock", "log"} /\ task[i].how # "reply"
            => Failed(task[i].result[1])
    /\ (Finished /\ \E r \in Range(results) : Failed(r)) =>
         Len(results) = Len(snapshots) * NModels * config.Runs

C3_Witness ==
    /\ Finished
    /\ \E r, q \in Range(results) :
         /\ SamePair(r, q)
         /\ Failed(r) /\ r.RawOutput # <<>>
         /\ ~Failed(q) /\ q.TotalScore # Zero /\ q.TotalScore # Num(100)

\* what a result shows of a backend's answer
Observed(r) ==
    [SnapshotID |-> r.SnapshotID, ModelInfo |-> r.ModelInfo, RunIndex |-> r.RunIndex,
     Actual |-> r.Actual, Scores |-> r.Scores, TotalScore |-> r.TotalScore,
     Error |-> r.Error]

OthersOf(rs) == {k \in 1..Len(rs) : rs[k].ModelInfo.Model # control.fail}

\* C4: with one backend made to fail, the results of the other backends
\* (actual values, scores, total score, error) are those of a control run
\* without that backend, the other backends answering alike.
C4_NonInterference ==
    (control.phase = "control" /\ Finished) =>
        /\ Len(results) = Cardinality(OthersOf(control.first))
        /\ {Observed(r) : r \in Range(results)}
             = {Observed(control.first[k]) : k \in OthersOf(control.first)}

C4_Witness ==
    /\ control.phase = "control"
    /\ Finished
    /\ \E k \in 1..Len(control.first) :
         /\ control.first[k].ModelInfo.Model = control.fail
         /\ Failed(control.first[k])
         /\ k < Len(control.first)
    /\ \E r \in Range(results) : ~Failed(r)

\* C5: at most one task is between mu.Lock() and mu.Unlock(), the mutex is
\* held exactly by that task, and no task holds it while it waits for its
\* backend, parses or scores.
C5_Mutex ==
    /\ Cardinality({i \in Tasks : task[i].pc \in {"append", "unlock"}}) <= 1
    /\ \A i \in Tasks : mu = i <=> task[i].pc \in {"append", "unlock"}
    /\ \A i \in Tasks : task[i].pc \in {"start", "chat", "parse", "lock"} => mu # i

C5_Witness ==
    \E i, j \in Tasks :
        /\ task[i].pc = "append" /\ mu = i
        /\ task[j].pc = "chat"

\* C6: when acquisition yields no snapshot, Run returns an error and no report.
C6_ZeroSnapshotsFatal ==
    (pc \in {"done", "failed"} /\ Len(snapshots) = 0) =>
        /\ Returned1.err # ""
        /\ Returned1.report = <<>>

SymbolResults(k) == {r \in Range(results) : r.SnapshotID[2] = config.Symbols[k]}

\* C7: in realtime mode every symbol is attempted; a symbol whose capture
\* failed has no result, and a symbol whose capture succeeded, saved or not, is
\* benchmarked by every backend for every run index.
C7_SkipOnlyFailedSymbol ==
    (Finished /\ config.Mode # "static") =>
        /\ Len(captureLog) = Len(config.Symbols)
        /\ \A k \in 1..Len(config.Symbols) :
             IF captureLog[k].ok
             THEN /\ Cardinality(SymbolResults(k)) >= 1 \/ NModels = 0
                  /\ \A b \in 1..NModels, r \in 0..(config.Runs - 1) :
                       \E q \in SymbolResults(k) :
                          q.ModelInfo.Model = config.Models[b].Model /\ q.RunIndex = r
             ELSE SymbolResults(k) = {}

C7_Witness ==
    /\ Finished
    /\ config.Mode # "static"
    /\ \E k \in 1..Len(captureLog) : ~captureLog[k].ok
    /\ \E k \in 1..Len(captureLog) :
         captureLog[k].ok /\ ~captureLog[k].saved /\ Cardinality(SymbolResults(k)) = 2

\* C8: with a snapshot acquired Run returns a report and no error, however
\* many tasks fail; Run returns an error only from acquisition, before any
\* task was launched.
C8_FailuresNotPropagated ==
    /\ Finished => Returned1.err = "" /\ Returned1.report # <<>>
    /\ Len(snapshots) >= 1 => pc # "failed"
    /\ pc = "failed" =>
         /\ Returned1.err \in {"load snapshots", "no snapshots found"}
         /\ Returned1.report = <<>>
         /\ results = <<>>
         /\ \A i \in Tasks : task[i].pc = "idle"

C8_Witness ==
    /\ Finished
    /\ Len(results) >= 2
    /\ \A r \in Range(results) : Failed(r)
    /\ ~ctxDone

\* C9: for every reply with a status outside 200..299, whatever its body, the
\* result of the task has a non-empty Error and Actual and Scores unset.
C9_Non2xxIsFailure ==
    (call.op = "runSingleBenchmark" /\ call.out # <<>>) =>
        ((call.arg.x.do /\ call.arg.x.status \notin 200..299) =>
            /\ Chat(call.arg.x).err # ""
            /\ Failed(call.out[1])
            /\ call.out[1].Actual = <<>>
            /\ call.out[1].Scores = <<>>)

\* C10 (state part): a task whose network wait was ended by the cancellation
\* holds a result with a non-empty Error and no Actual, and that result is in
\* the collection once the task has appended.
C10_CancelledRecorded ==
    \A i \in Tasks :
        task[i].how = "canceled" =>
            /\ ctxDone
            /\ Failed(task[i].result[1])
            /\ task[i].result[1].Actual = <<>>
            /\ task[i].pc \in {"unlock", "log"} =>
                 \E k \in 1..Len(results) : results[k] = task[i].result[1]

\* C10 (step part): the cancellation itself, and the step that ends a task's
\* wait by it, change no other task and no collected result.
C10_CancelStep ==
    /\ ctxDone' # ctxDone => task' = task /\ results' = results
    /\ \A j \in Tasks :
         (task[j].how # "canceled" /\ task'[j].how = "canceled") =>
            /\ \A i \in Tasks \ {j} : task'[i] = task[i]
            /\ results' = results

\* C10: a cancelled task records a failure, its result is still appended, and
\* it leaves its siblings' results as they were.
C10_Cancellation == []C10_CancelledRecorded /\ [][C10_CancelStep]_vars

C10_Witness ==
    \E r, q \in Range(results) :
        /\ SamePair(r, q)
        /\ r.Error = "request failed: context canceled"
        /\ ~Failed(q)

\* the (snapshot, backend, run index) triples of the run
Triples ==
    {<<snapshots[s].ID, b, r>> :
        s \in 1..Len(snapshots), b \in 1..NModels, r \in 0..(config.Runs - 1)}

\* C11: client.Chat is called at most once for a (snapshot, backend, run
\* index) triple, whether the call succeeds or fails; when Run returns it has
\* been called exactly once for every triple, every call has left one result,
\* and a task whose call failed holds a failed result.
C11_NoRetry ==
    /\ \A k \in BagToSet(chats) : CopiesIn(k, chats) = 1
    /\ Finished =>
         /\ BagToSet(chats) = Triples
         /\ BagCardinality(chats) = Len(results)
    /\ \A i \in Tasks :
         (InFlight(i) /\ task[i].how \in {"error", "canceled"}) =>
            /\ task[i].pc \in {"lock", "append", "unlock", "log"}
            /\ Failed(task[i].result[1])

C11_Witness ==
    /\ Finished
    /\ BagCardinality(chats) = 4
    /\ \E r, q \in Range(results) :
         /\ r.Error = "request failed: dial"
         /\ ~Failed(q)
         /\ r.Model = q.Model

\* the statistics call: its results, what it returned
StatsCalled == call.op = "calculateStatistics" /\ Len(call.out) >= 1
StatsArg == call.arg.results
StatsOut == call.out[1]

\* the identity of the backend a result or a statistics entry belongs to
Backend(r) == <<r.ModelInfo.Provider, r.ModelInfo.Model>>
Succeeded(rs) == SelectSeq(rs, LAMBDA r : r.Error = "")
ScoresOf(rs) == [n \in 1..Len(rs) |-> rs[n].TotalScore]
LatenciesOf(rs) == [n \in 1..Len(rs) |-> Num(rs[n].Latency)]
SeqWithout(seq, j) == [n \in 1..(Len(seq) - 1) |-> IF n < j THEN seq[n] ELSE seq[n + 1]]
SameMap(a, b) == DOMAIN a = DOMAIN b /\ \A k \in DOMAIN a : a[k] = b[k]

\* entry st summarises the results mine: the failed ones counted, the score
\* and latency summaries and the indicator averages over the successful ones
Summarises(st, mine) ==
    LET ok == Succeeded(mine)
    IN /\ st.FailureCount = Len(mine) - Len(ok)
       /\ st.SuccessCount = Len(ok)
       /\ st.AvgScore = average(ScoresOf(ok))
       /\ st.MinScore = min(ScoresOf(ok))
       /\ st.MaxScore = max(ScoresOf(ok))
       /\ st.StdDev = stdDev(ScoresOf(ok))
       /\ st.AvgLatencyMs = average(LatenciesOf(ok))
       /\ st.MinLatencyMs = min(LatenciesOf(ok))
       /\ st.MaxLatencyMs = max(LatenciesOf(ok))
       /\ \A key \in DOMAIN st.IndicatorAvgs :
            st.IndicatorAvgs[key] =
               average([n \in 1..Len(ok) |-> Num(ok[n].Scores[1][FieldOfKey(key)])])
       /\ Len(ok) > 0 => DOMAIN st.IndicatorAvgs = JsonKeys

SameEntry(st, o) ==
    /\ [f \in (DOMAIN st) \ {"IndicatorAvgs"} |-> st[f]]
         = [f \in (DOMAIN o) \ {"IndicatorAvgs"} |-> o[f]]
    /\ SameMap(st.IndicatorAvgs, o.IndicatorAvgs)

\* C12: every backend has a statistics entry that counts its failed results
\* in FailureCount and summarises scores, latencies and indicator averages over
\* exactly its successful results; and the entries of the other backends are
\* those of the same results with a failed result taken out.
C12_FailedExcluded ==
    StatsCalled =>
        /\ \A b \in {Backend(r) : r \in Range(StatsArg)} :
             \E st \in Range(StatsOut) :
                /\ Backend(st) = b
                /\ Summarises(st, SelectSeq(StatsArg, LAMBDA r : Backend(r) = b))
        /\ \A j \in 1..Len(StatsArg) :
             Failed(StatsArg[j]) =>
                \A st \in Range(StatsOut) :
                    Backend(st) # Backend(StatsArg[j]) =>
                       \E other \in calculateStatistics(SeqWithout(StatsArg, j)) :
                          \E o \in Range(other) : SameEntry(st, o)

\* C12, for the backends of one display name taken together: the entry of a
\* display name counts the failed results of that name and summarises exactly
\* the successful ones, and the entries of the other names are those of the
\* same results with a failed result taken out.
C12_FailedExcludedPerName ==
    StatsCalled =>
        /\ \A name \in {r.Model : r \in Range(StatsArg)} :
             \E st \in Range(StatsOut) :
                /\ st.Model = name
                /\ Summarises(st, SelectSeq(StatsArg, LAMBDA r : r.Model = name))
        /\ \A j \in 1..Len(StatsArg) :
             Failed(StatsArg[j]) =>
                \A st \in Range(StatsOut) :
                    st.Model # StatsArg[j].Model =>
                       \E other \in calculateStatistics(SeqWithout(StatsArg, j)) :
                          \E o \in Range(other) : SameEntry(st, o)

\* two backends of one display name, one of them with a failed result, the
\* other with two successful results of different scores
C12_Witness ==
    /\ StatsCalled
    /\ \E r, q \in Range(StatsArg) :
         /\ r.Model = q.Model /\ Backend(r) # Backend(q)
         /\ Failed(r) /\ ~Failed(q)
    /\ \E st \in Range(StatsOut) : st.StdDev # Zero /\ st.FailureCount = 1

ConfiguredBackend(b) == <<config.Models[b].Provider, config.Models[b].Model>>

\* C13: when Run returns a report of at least one snapshot, report.Statistics
\* has one entry per configured backend, N in all, each with RunCount =
\* snapshots * runs and summarising the results of that backend only.
C13_OneEntryPerBackend ==
    (Finished /\ Len(snapshots) >= 1) =>
        LET stats == Returned1.report[1].Statistics
        IN /\ Len(stats) = NModels
           /\ \A b \in 1..NModels :
                \E k \in 1..Len(stats) :
                   /\ Backend(stats[k]) = ConfiguredBackend(b)
                   /\ \A o \in 1..Len(stats) :
                        Backend(stats[o]) = ConfiguredBackend(b) => o = k
                   /\ stats[k].RunCount = Len(snapshots) * config.Runs
                   /\ Summarises(stats[k],
                                 SelectSeq(results, LAMBDA r : Backend(r) = ConfiguredBackend(b)))

\* a finished run of two backends of one display name: one entry for both
C13_Witness ==
    /\ Finished
    /\ NModels = 2
    /\ config.Models[1].Name = config.Models[2].Name
    /\ ConfiguredBackend(1) # ConfiguredBackend(2)
    /\ Len(Returned1.report[1].Statistics) = 1
    /\ Returned1.report[1].Statistics[1].RunCount = 2 * Len(snapshots) * config.Runs

BoardCalled == call.op = "calculateStatistics" /\ Len(call.out) = 2
BoardOut == call.out[2]

\* C14: the leaderboard has one entry for every statistics entry, its average
\* scores never increase from one position to the next, and the rank of the
\* entry at position i is i, so the ranks are 1..n, also when entries tie or
\* have an average score of 0.
C14_LeaderboardRanks ==
    BoardCalled =>
        /\ Len(BoardOut) = Len(StatsOut)
        /\ \A st \in Range(StatsOut) :
             Cardinality({i \in 1..Len(BoardOut) :
                            /\ BoardOut[i].Model = st.Model
                            /\ BoardOut[i].AvgScore = st.AvgScore
                            /\ BoardOut[i].RunCount = st.RunCount}) = 1
        /\ \A i, j \in 1..Len(BoardOut) :
             i < j => RLe(BoardOut[j].AvgScore, BoardOut[i].AvgScore)
        /\ \A i \in 1..Len(BoardOut) : BoardOut[i].Rank = i
        /\ {BoardOut[i].Rank : i \in 1..Len(BoardOut)} = 1..Len(StatsOut)

\* two entries that tie on a positive average score, one of them of a backend
\* with a failed run
C14_Witness ==
    /\ BoardCalled
    /\ Len(BoardOut) = 2
    /\ BoardOut[1].AvgScore = BoardOut[2].AvgScore
    /\ BoardOut[1].AvgScore # Zero
    /\ \E st \in Range(StatsOut) : st.FailureCount > 0

Called(op) == call.op = op /\ call.out # <<>>
Out == call.out[1]

\* the tier of an error percentage n/d (d > 0), by its absolute value
TierOf(n, d) ==
    IF 10 * Abs(n) <= d THEN 100
    ELSE IF Abs(n) <= d THEN 80
    ELSE IF Abs(n) <= 5 * d THEN 60
    ELSE IF Abs(n) <= 10 * d THEN 40
    ELSE 0

\* C15: ScoreFromError(e) is 100 for |e| <= 0.1, 80 for 0.1 < |e| <= 1, 60 for
\* 1 < |e| <= 5, 40 for 5 < |e| <= 10 and 0 for |e| > 10, for e of either sign.
C15_ScoreFromErrorTiers ==
    Called("ScoreFromError") =>
        LET e == call.arg.errorPct
        IN /\ Out = TierOf(e[1], e[2])
           /\ RAbs(e) = Rat(1, 10) => Out = 100
           /\ RAbs(e) = Rat(10001, 100000) => Out = 80
           /\ RAbs(e) = Num(1) => Out = 80
           /\ RAbs(e) = Rat(100001, 100000) => Out = 60
           /\ RAbs(e) = Num(5) => Out = 60
           /\ RAbs(e) = Num(10) => Out = 40
           /\ RAbs(e) = Rat(1000001, 100000) => Out = 0

C15_Witness ==
    /\ Called("ScoreFromError")
    /\ call.arg.errorPct = Rat(-1, 10)
    /\ Out = 100

\* C16: CalculateError(0, 0) = 0 and CalculateError(0, a) = 100 for a # 0; for
\* expected # 0 the result r satisfies r * |expected| = 100 * |expected -
\* actual|, is not negative, and is 0 exactly when actual = expected.
C16_CalculateError ==
    Called("CalculateError") =>
        LET e == call.arg.expected
            a == call.arg.actual
        IN /\ Out[2] > 0
           /\ e = Zero => Out = (IF a = Zero THEN Zero ELSE Num(100))
           /\ e # Zero =>
                /\ RMul(Out, RAbs(e)) = RMul(Num(100), RAbs(RSub(e, a)))
                /\ Out[1] >= 0
                /\ Out = Zero <=> a = e
           /\ (e = Num(100) /\ a = Num(101)) => Out = Num(1)

C16_Witness ==
    /\ Called("CalculateError")
    /\ call.arg.expected = Zero
    /\ call.arg.actual = Num(5)
    /\ Out = Num(100)

\* C17: ScoreIndicators gives ten scores, each 0, 40, 60, 80 or 100, and an
\* error for each of the ten indicator names; CalculateTotalScore is the sum of
\* the ten scores divided by 10, between 0 and 100, and 100 when a vector is
\* scored against itself.
C17_TenScoresAndMean ==
    Called("ScoreIndicators") =>
        /\ DOMAIN Out.Scores = Fields
        /\ Cardinality(Fields) = 10
        /\ \A f \in Fields : Out.Scores[f] \in {0, 40, 60, 80, 100}
        /\ DOMAIN Out.Errors = JsonKeys
        /\ Cardinality(JsonKeys) = 10
        /\ \A f \in Fields :
             Out.Errors[JsonKey(f)] = CalculateError(call.arg.expected[f], call.arg.actual[f])
        /\ {FieldOfKey(KeyOrder[i]) : i \in 1..10} = Fields
        /\ RMul(Out.TotalScore, Num(10))
             = SumOf([i \in 1..10 |-> Num(Out.Scores[FieldOfKey(KeyOrder[i])])], 10)
        /\ RLe(Zero, Out.TotalScore) /\ RLe(Out.TotalScore, Num(100))
        /\ call.arg.actual = call.arg.expected => Out.TotalScore = Num(100)

C17_Witness ==
    /\ Called("ScoreIndicators")
    /\ \E f, g, h \in Fields :
         Out.Scores[f] = 0 /\ Out.Scores[g] = 100 /\ Out.Scores[h] = 60
    /\ Out.TotalScore \notin {Zero, Num(100)}

\* C18: in ScoreIndicators MACD scores 100 whenever its error is at most 0.5%,
\* RSI14 and ATR14 whenever theirs is at most 1%, and the other indicators
\* whenever theirs is at most 0.1%.
C18_FullScoreThresholds ==
    Called("ScoreIndicators") =>
        \A f \in Fields :
            LET threshold == IF f = "MACD" THEN Rat(1, 2)
                             ELSE IF f \in {"RSI14", "ATR14"} THEN Num(1)
                             ELSE Rat(1, 10)
            IN RLe(Out.Errors[JsonKey(f)], threshold) => Out.Scores[f] = 100

\* a MACD that is 0.3% off and scores 80
C18_Witness ==
    /\ Called("ScoreIndicators")
    /\ Out.Errors["macd"] = Rat(3, 10)
    /\ Out.Scores.MACD = 80

\* the reply text client.Chat returned, when it returned one
GotReply ==
    /\ Called("runSingleBenchmark")
    /\ call.arg.x.do /\ call.arg.x.read /\ call.arg.x.json
    /\ ~call.arg.x.apiError
    /\ call.arg.x.choices # <<>>
Reply == call.arg.x.choices[1]

KeysIn(toks) == {toks[i].k : i \in 1..Len(toks)}

\* the text with "key": 0 as the first member of every object
RECURSIVE WithZero(_, _)
WithZero(toks, key) ==
    IF toks = <<>> THEN <<>>
    ELSE IF Head(toks).t = "{" THEN <<Head(toks), KV(key, Zero)>> \o WithZero(Tail(toks), key)
    ELSE <<Head(toks)>> \o WithZero(Tail(toks), key)

\* C19: in a result without error, an indicator whose name occurs nowhere in
\* the reply is 0 in Actual, its error and score are those of a reported 0 (the
\* score is the one the same reply gets with "name": 0 written out), and where
\* the expected value is not 0 it differs from it and scores 0.
C19_MissingFieldIsZero ==
    (GotReply /\ Out.Error = "") =>
        \A f \in Fields :
            JsonKey(f) \notin KeysIn(Reply) =>
                LET want == CalculateIndicators(call.arg.snapshot.Klines)
                    explicit == runSingleBenchmark(call.arg.snapshot.ID, call.arg.mc, want,
                                   call.arg.run,
                                   [call.arg.x EXCEPT !.choices =
                                       <<WithZero(Reply, JsonKey(f))>>])
                IN /\ Out.Actual[1][f] = Zero
                   /\ Out.Errors[JsonKey(f)] = CalculateError(want[f], Zero)
                   /\ Out.Scores[1][f] = ScoreFromError(CalculateError(want[f], Zero))
                   /\ explicit.Error = ""
                   /\ explicit.Actual[1][f] = Zero
                   /\ explicit.Scores[1][f] = Out.Scores[1][f]
                   /\ want[f] # Zero =>
                        /\ Out.Actual[1][f] # want[f]
                        /\ Out.Errors[JsonKey(f)] = Num(100)
                        /\ Out.Scores[1][f] = 0

C19_Witness ==
    /\ GotReply
    /\ Out.Error = ""
    /\ \E f \in Fields :
         /\ JsonKey(f) \notin KeysIn(Reply)
         /\ Out.Expected[1][f] # Zero
         /\ Out.Scores[1][f] = 0
    /\ \E g \in Fields : JsonKey(g) \in KeysIn(Reply) /\ Out.Scores[1][g] = 100

\* how deep in braces the token at i is
Depth(toks, i) ==
    Cardinality({j \in 1..(i - 1) : toks[j].t = "{"})
    - Cardinality({j \in 1..(i - 1) : toks[j].t = "}"})

TopMembers(toks) ==
    {i \in 1..Len(toks) : Depth(toks, i) = 1 /\ toks[i].t \in {"num", "str", "key"}}

\* the text is one JSON object whose indicators are all numbers
StrictOK(toks) ==
    /\ ValidJSON(toks)
    /\ \A i \in TopMembers(toks) : toks[i].k \in JsonKeys => toks[i].t = "num"

\* the indicators of an object: the last number given for each, 0 without one
Decoded(toks) ==
    [f \in Fields |->
        LET at == {i \in TopMembers(toks) : toks[i].t = "num" /\ toks[i].k = JsonKey(f)}
        IN IF at = {} THEN Zero ELSE toks[CHOOSE i \in at : \A o \in at : i >= o].v]

\* the substring the fallback extracts: the leftmost brace pair without inner
\* braces that holds "ma20", else the text from the first "{" to the last "}"
Candidate(toks) ==
    LET pairs == {p \in (1..Len(toks)) \X (1..Len(toks)) :
                    /\ p[1] < p[2]
                    /\ toks[p[1]].t = "{" /\ toks[p[2]].t = "}"
                    /\ \A m \in (p[1] + 1)..(p[2] - 1) :
                         toks[m].t \notin {"{", "}"}
                    /\ \E m \in (p[1] + 1)..(p[2] - 1) : toks[m].k = "ma20"}
        opens == {i \in 1..Len(toks) : toks[i].t = "{"}
        closes == {i \in 1..Len(toks) : toks[i].t = "}"}
    IN IF pairs # {}
       THEN LET p == CHOOSE q \in pairs : \A o \in pairs : q[1] <= o[1]
            IN SubSeq(toks, p[1], p[2])
       ELSE IF \E i \in opens : \E j \in closes : i < j
       THEN SubSeq(toks, CHOOSE i \in opens : \A o \in opens : i <= o,
                         CHOOSE j \in closes : \A o \in closes : j >= o)
       ELSE <<>>

\* C20: a reply that decodes as a whole gives the indicators of the whole
\* reply; otherwise the extracted substring is decoded; without a substring
\* the result's error is "no JSON found", with one that does not decode it is
\* "parse JSON failed", and in both cases nothing is scored; RawOutput is the
\* whole reply in every case.
C20_StrictThenExtract ==
    GotReply =>
        /\ Out.RawOutput = Reply
        /\ StrictOK(Reply) =>
             /\ Out.Error = ""
             /\ Out.Actual = <<Decoded(Reply)>>
        /\ (~StrictOK(Reply) /\ Candidate(Reply) = <<>>) =>
             /\ Out.Error = "parse response: no JSON found in response"
             /\ Out.Actual = <<>> /\ Out.Scores = <<>> /\ Out.TotalScore = Zero
        /\ (~StrictOK(Reply) /\ Candidate(Reply) # <<>> /\ ~StrictOK(Candidate(Reply))) =>
             /\ Out.Error = "parse response: parse JSON failed"
             /\ Out.Actual = <<>> /\ Out.Scores = <<>> /\ Out.TotalScore = Zero
        /\ (~StrictOK(Reply) /\ StrictOK(Candidate(Reply))) =>
             /\ Out.Error = ""
             /\ \A f \in Fields :
                  JsonKey(f) \in KeysIn(Candidate(Reply)) =>
                      Out.Actual[1][f] = Decoded(Candidate(Reply))[f]

C20_Witness ==
    /\ GotReply
    /\ Reply = BrokenText
    /\ Out.Error = "parse response: parse JSON failed"
    /\ Out.RawOutput = BrokenText

MarketOps ==
    {"CalculateSMA", "CalculateEMA", "CalculateRSI", "CalculateATR", "CalculateBOLL",
     "CalculateVolumeMA", "CalculateMACD"}
MarketCalled == call.op \in MarketOps /\ call.out # <<>>
SeriesLen == Len(call.arg.klines)

\* C21: with fewer candles than the period CalculateSMA, CalculateEMA and
\* CalculateVolumeMA return 0 and CalculateBOLL (0, 0, 0); with no more candles
\* than the period CalculateRSI and CalculateATR return 0; with fewer than 26
\* CalculateMACD returns 0; every index read lies inside the series; and
\* CalculateIndicators leaves the indicators of a too short series at 0.
C21_LengthGuards ==
    /\ MarketCalled =>
         /\ (call.op \in {"CalculateSMA", "CalculateEMA", "CalculateVolumeMA"}
               /\ SeriesLen < call.arg.period) => Out.value = Zero
         /\ (call.op = "CalculateBOLL" /\ SeriesLen < call.arg.period) =>
               Out.value = <<Zero, Zero, Zero>>
         /\ (call.op \in {"CalculateRSI", "CalculateATR"}
               /\ SeriesLen <= call.arg.period) => Out.value = Zero
         /\ (call.op = "CalculateMACD" /\ SeriesLen < 26) => Out.value = Zero
         /\ Out.reads \subseteq 0..(SeriesLen - 1)
    /\ Called("CalculateIndicators") =>
         /\ SeriesLen < 20 =>
              \A f \in {"MA20", "BOLLUp", "BOLLMid", "BOLLLow"} : Out[f] = Zero
         /\ SeriesLen < 12 => Out.EMA12 = Zero
         /\ SeriesLen < 26 => Out.EMA26 = Zero /\ Out.MACD = Zero
         /\ SeriesLen <= 14 => Out.RSI14 = Zero /\ Out.ATR14 = Zero
         /\ SeriesLen < 5 => Out.VolumeMA = Zero

C21_Witness ==
    /\ MarketCalled
    /\ call.op = "CalculateMACD"
    /\ SeriesLen = 25
    /\ call.arg.klines[25].Close = Num(113)
    /\ Out.value = Zero

\* the EMA after the candle with Go index m - 1, from its definition
RECURSIVE EMARef(_, _, _)
EMARef(klines, period, m) ==
    IF m <= period
    THEN RDiv(SumOf([i \in 1..period |-> klines[i].Close], period), Num(period))
    ELSE LET prev == EMARef(klines, period, m - 1)
         IN IF ~Finite(prev) THEN prev
            ELSE RAdd(prev, RMul(RSub(klines[m].Close, prev), Rat(2, period + 1)))

\* C22: with at least period candles CalculateEMA is the mean of the first
\* period closes folded over the later closes in order with k = 2/(period+1);
\* for constant closes it is that constant, and for exactly period candles it
\* is the SMA.
C22_EMASeed ==
    (Called("CalculateEMA") /\ SeriesLen >= call.arg.period) =>
        /\ Out.value = EMARef(call.arg.klines, call.arg.period, SeriesLen)
        /\ (\A i \in 1..SeriesLen : call.arg.klines[i].Close = call.arg.klines[1].Close)
             => Out.value = call.arg.klines[1].Close
        /\ SeriesLen = call.arg.period
             => Out.value = CalculateSMA(call.arg.klines, call.arg.period)
        /\ (call.arg.klines = ConstantSeries(100, 15) /\ call.arg.period = 12)
             => Out.value = Num(100)

C22_Witness ==
    /\ Called("CalculateEMA")
    /\ call.arg.klines = StepSeries(100, 13, 113)
    /\ call.arg.period = 12
    /\ Out.value = Num(102)

Rising(klines) ==
    \A i \in 2..Len(klines) : RLt(klines[i - 1].Close, klines[i].Close)

\* avgGain and avgLoss of CalculateRSI after the candle with Go index m - 1
RSIAverages(klines, period, m) ==
    LET seed == RSISeed(klines, period)
    IN RSIWilder(SubSeq(klines, 1, m), period, period + 1,
                 <<RDiv(seed[1], Num(period)), RDiv(seed[2], Num(period))>>)

\* C23: for a series longer than the period whose closes rise strictly,
\* avgLoss is 0 after the seed and after every Wilder update, avgGain is
\* positive, and CalculateRSI returns 100.
C23_RisingRSI ==
    (Called("CalculateRSI") /\ SeriesLen > call.arg.period /\ Rising(call.arg.klines)) =>
        /\ Out.value = Num(100)
        /\ \A m \in (call.arg.period + 1)..SeriesLen :
             /\ RSIAverages(call.arg.klines, call.arg.period, m)[2] = Zero
             /\ RLt(Zero, RSIAverages(call.arg.klines, call.arg.period, m)[1])

C23_Witness ==
    /\ Called("CalculateRSI")
    /\ call.arg.klines = LinearSeries(10, 1, 27)
    /\ call.arg.period = 14
    /\ Out.value = Num(100)

\* the results appended so far and those the tasks in flight hold
KnownResults ==
    Range(results) \cup {task[i].result[1] : i \in {j \in Tasks : task[j].result # <<>>}}

C24_ExpectedShared ==
    /\ \A r \in KnownResults : r.Expected = <<ExpectedOf(r.SnapshotID)>>
    /\ \A r, q \in KnownResults : r.SnapshotID = q.SnapshotID => r.Expected = q.Expected
    /\ (pc \in {"launch", "wait"} \/ \E i \in Tasks : InFlight(i)) =>
         expected = <<CalculateIndicators(snapshots[snapIdx].Klines)>>

C24_ExpectedStep ==
    /\ expected' # expected =>
         /\ pc = "snapshot" /\ pc' = "run"
         /\ \A i \in Tasks : ~InFlight(i)
         /\ expected' = <<CalculateIndicators(snapshots[snapIdx].Klines)>>
    /\ \A k \in 1..Len(results) :
         Len(results') >= k => results'[k].Expected = results[k].Expected

\* C24: expected is assigned only at the head of a snapshot's iteration, while
\* no task runs, to CalculateIndicators of the snapshot's candles; every
\* result, appended or still held by a task, failed or not, carries the
\* expected vector of its snapshot, and a stored result's Expected never changes.
C24_ExpectedOncePerSnapshot == []C24_ExpectedShared /\ [][C24_ExpectedStep]_vars

C24_Witness ==
    /\ Finished
    /\ \E r, q, o \in Range(results) :
         /\ r.SnapshotID = q.SnapshotID /\ r # q
         /\ Failed(r) /\ ~Failed(q)
         /\ o.SnapshotID # r.SnapshotID
         /\ o.Expected # r.Expected

RECURSIVE SumRunCounts(_, _)
SumRunCounts(stats, n) ==
    IF n = 0 THEN 0 ELSE SumRunCounts(stats, n - 1) + stats[n].RunCount

\* C25: in every statistics entry SuccessCount + FailureCount = RunCount, the
\* RunCounts add up to the number of results passed in, an entry without a
\* success has every score and latency summary and the consistency at 0 and no
\* indicator averages, and it is on the leaderboard with its RunCount and an
\* average of 0.
C25_CountsAddUp ==
    /\ StatsCalled =>
         /\ \A st \in Range(StatsOut) :
              /\ st.SuccessCount >= 0 /\ st.FailureCount >= 0
              /\ st.SuccessCount + st.FailureCount = st.RunCount
              /\ st.RunCount =
                   Cardinality({k \in 1..Len(StatsArg) :
                                  StatsArg[k].Model = st.Model})
              /\ st.SuccessCount = 0 =>
                   /\ \A x \in {st.AvgScore, st.MinScore, st.MaxScore, st.StdDev,
                                st.Consistency, st.AvgLatencyMs, st.MinLatencyMs,
                                st.MaxLatencyMs} : x = Zero
                   /\ DOMAIN st.IndicatorAvgs = {}
         /\ SumRunCounts(StatsOut, Len(StatsOut)) = Len(StatsArg)
         /\ \A k \in 1..Len(StatsArg) :
              \E st \in Range(StatsOut) : st.Model = StatsArg[k].Model
    /\ BoardCalled =>
         \A st \in Range(StatsOut) :
            st.SuccessCount = 0 =>
               \E e \in Range(BoardOut) :
                  /\ e.Model = st.Model
                  /\ e.RunCount = st.RunCount
                  /\ e.AvgScore = Zero /\ e.Consistency = Zero /\ e.AvgLatency = Zero
                  /\ e.Rank \in 1..Len(StatsOut)

C25_Witness ==
    /\ BoardCalled
    /\ \E st, ot \in Range(StatsOut) :
         /\ st.SuccessCount = 0 /\ st.RunCount = 2
         /\ ot.SuccessCount > 0 /\ ot.FailureCount > 0
    /\ \E e \in Range(BoardOut) : e.AvgScore = Zero /\ e.RunCount = 2 /\ e.Rank = 2

RunIndices(id, b) ==
    {r.RunIndex : r \in {q \in Range(results) :
                           /\ q.SnapshotID = id
                           /\ q.ModelInfo.Model = config.Models[b].Model}}

C27_RunsNormal ==
    /\ pc # "new" => config.Runs >= 1
    /\ call.op = "NewEngine" =>
         /\ call.arg.Runs <= 0 => config.Runs = 1
         /\ call.arg.Runs > 0 => config.Runs = call.arg.Runs
    /\ Finished =>
         \A s \in 1..Len(snapshots) : \A b \in 1..NModels :
            /\ RunIndices(snapshots[s].ID, b) = 0..(config.Runs - 1)
            /\ RunIndices(snapshots[s].ID, b) # {}

C27_RunsStep ==
    /\ pc = "new" =>
         /\ config'.Runs = (IF config.Runs <= 0 THEN 1 ELSE config.Runs)
         /\ [config' EXCEPT !.Runs = 0] = [config EXCEPT !.Runs = 0]
    /\ pc # "new" => config'.Runs = config.Runs

\* C27: NewEngine replaces a run count of 0 or less by 1 in the configuration
\* it was given and leaves every other one; the run count does not change
\* afterwards; and when Run returns, the run indices recorded for every
\* snapshot and backend are exactly 0..Runs-1, at least the index 0.
C27_RunCountNormalised == []C27_RunsNormal /\ [][C27_RunsStep]_vars

C27_Witness ==
    /\ call.op = "NewEngine"
    /\ call.arg.Runs = 0
    /\ config.Runs = 1
    /\ NModels = 2
    /\ pc = "start"

C26_BarrierCounts ==
    /\ \A i \in Tasks : task[i].pc = "chat" => Offered(task[i]) # {}
    /\ (pc = "snapshot" /\ snapIdx > Len(snapshots)) =>
         \E stats \in calculateStatistics(results) : calculateLeaderboard(stats) # {}
    /\ wg = Cardinality({i \in Tasks : InFlight(i)})
    /\ pc = "wait" => launched = NModels
    /\ (pc = "wait" /\ NModels = 0) => wg = 0
    /\ pc \in {"done", "failed"} <=> ret # <<>>
    /\ Finished =>
         /\ Returned1.err = ""
         /\ Len(results) = Len(snapshots) * NModels * config.Runs

\* C26: the join counter is the number of tasks launched and not yet done, so
\* the barrier waits for launched tasks only (for none without backends); Run
\* eventually returns a report or an error; and a report holds a result for
\* every triple, also when the context was cancelled on the way.
C26_RunTerminates == []C26_BarrierCounts /\ <>(pc \in {"done", "failed"})

\* a run cancelled before its first call: every triple attempted and failed
C26_Witness ==
    /\ Finished
    /\ ctxDone
    /\ Len(results) = 4
    /\ \A r \in Range(results) : r.Error = "request failed: context canceled"

QwenTrace == call.out.trace
SessionOps == {"Chat", "ChatStream", "ChatWithBizParams"}

\* the last non-empty session id heard in the first k calls since the last
\* ResetSession among them, "" if there is none
RECURSIVE LatestSession(_, _)
LatestSession(trace, k) ==
    IF k = 0 THEN ""
    ELSE IF trace[k].op = "ResetSession" THEN ""
    ELSE LET ids == SelectSeq(trace[k].heard, LAMBDA id : id # "")
         IN IF ids # <<>> THEN ids[Len(ids)] ELSE LatestSession(trace, k - 1)

\* C29: every request of Chat, ChatStream and ChatWithBizParams carries the
\* session id of the most recent decoded response or chunk with a non-empty
\* session id since the last ResetSession ("" if none), whether or not that
\* response had an API error code; the agent stores that id after every call;
\* and a request of ChatWithModel carries no session id.
C29_SessionTracking ==
    /\ \A k \in 1..Len(QwenTrace) :
         IF QwenTrace[k].op \in SessionOps
         THEN QwenTrace[k].sent = <<LatestSession(QwenTrace, k - 1)>>
         ELSE QwenTrace[k].sent = <<>>
    /\ call.out.agent.SessionID = LatestSession(QwenTrace, Len(QwenTrace))
    /\ (Len(QwenTrace) > 0 /\ QwenTrace[Len(QwenTrace)].op = "ChatWithModel") =>
         call.out.agent.SessionID = LatestSession(QwenTrace, Len(QwenTrace) - 1)

\* a stream whose chunks gave "s1", then "s2", then no id; a request that
\* carried "s2" and whose response had an error code and the id "s1"
C29_Witness ==
    /\ Len(QwenTrace) = 3
    /\ QwenTrace[1].op = "ResetSession"
    /\ QwenTrace[2].op = "ChatStream"
    /\ QwenTrace[2].heard = <<"s2", "">>
    /\ call.op = "Chat"
    /\ QwenTrace[3].sent = <<"s2">>
    /\ call.arg.result = <<QwenResponse("s1", "Throttling")>>
    /\ call.out.err = "API error"
    /\ call.out.agent.SessionID = "s1"

====
